---------------------------- MODULE Spec2Model ----------------------------
(***************************************************************************)
(* The compliance checker (src/src/adgm_checker.py), the checklist         *)
(* verifier (src/src/checklist_verifier.py), the document processor        *)
(* (src/src/document_processor.py) and process_documents (src/app.py) as   *)
(* state machines.                                                         *)
(*                                                                         *)
(* A Python str is a sequence of one-character strings, so that substring  *)
(* tests, case folding, regular-expression matching and filename           *)
(* normalisation are computed character by character as the code does.    *)
(* Dictionary keys that the code only compares for equality                *)
(* (document_type, process names, issue types) are TLA+ strings.           *)
(* A score or percentage that the code rounds to 2 decimals is held in     *)
(* hundredths: 6667 is 66.67.  An unrounded float is the exact fraction    *)
(* num/den.                                                                *)
(* The tables that the checker and the verifier build in __init__ are the  *)
(* state variable catalog: the operators of the two classes read them      *)
(* there.                                                                  *)
(***************************************************************************)
EXTENDS Integers, Sequences, FiniteSets, TLC

VARIABLES
    pc,               \* position of the running call
    document_type,    \* check_compliance: argument
    content,          \* check_compliance: argument
    structure,        \* check_compliance: argument
    report,           \* check_compliance: the returned dict
    sev_counts,       \* scoring: the severity counts being scored
    scores,           \* scoring: the scores computed from sev_counts
    uploaded_documents, \* verify_checklist: argument
    process_type,     \* verify_checklist: the inferred process
    doc_index,        \* verify_checklist: index of the next uploaded document
    found_documents,  \* verify_checklist: names of the satisfied requirements
    result,           \* verify_checklist: the returned ChecklistResult
    calls,            \* verify_checklist: the calls made so far to the process
                      \* identifier and to the document loader
    args,             \* the arguments of a call of one function of the matcher
                      \* or of the process identifier
    ret,              \* what that call, or process_documents, returns
    files,            \* process_documents: argument
    file_index,       \* process_documents: index of the next file
    processed_documents, \* process_documents: the doc_info of the loaded files
    all_issues,       \* process_documents: the issues of the analysed files
    errors,           \* process_documents: the recorded error lines
    catalog,          \* the tables of the checker and of the verifier instance
    first_call        \* shared instance: the first call made, and its result

complianceVars == <<document_type, content, structure, report>>
scoreVars == <<sev_counts, scores>>
checklistVars ==
    <<uploaded_documents, process_type, doc_index, found_documents, result, calls>>
callVars == <<args, ret>>
pipelineVars == <<files, file_index, processed_documents, all_issues, errors>>
instanceVars == <<catalog, first_call>>
vars == <<pc, complianceVars, scoreVars, checklistVars, callVars, pipelineVars,
          instanceVars>>

None == "None"

-----------------------------------------------------------------------------
(* Bounds of the model. *)

\* the content of a checked document is made of at most this many fragments
MaxFragments == 2
\* the scoring is applied to every triple of severity counts up to this
MaxCount == 4
\* at most this many documents are uploaded in one verify_checklist call
MaxDocs == 3
\* at most this many files are given to one process_documents call
MaxFiles == 2
\* a filename given to the normalisation is made of at most this many parts
MaxParts == 3
\* at most this many documents are given to one identify_process_type call
MaxListed == 3
\* at most this many documents are uploaded in the verify_checklist call that
\* runs on the shared instances
MaxShared == 2

-----------------------------------------------------------------------------
(* Python str operations. *)

Range(s) == {s[i] : i \in 1..Len(s)}

UpperCase == <<"A","B","C","D","E","F","G","H","I","J","K","L","M","N","O","P","Q","R","S","T","U","V","W","X","Y","Z">>  \* 'ABCDEFGHIJKLMNOPQRSTUVWXYZ'
LowerCase == <<"a","b","c","d","e","f","g","h","i","j","k","l","m","n","o","p","q","r","s","t","u","v","w","x","y","z">>  \* 'abcdefghijklmnopqrstuvwxyz'

ToLower == [c \in Range(UpperCase) |->
               LowerCase[CHOOSE i \in 1..Len(UpperCase) : UpperCase[i] = c]]

\* str.lower() of one character
lower_char(c) == IF c \in DOMAIN ToLower THEN ToLower[c] ELSE c

\* str.lower()
lower(s) == [i \in 1..Len(s) |-> lower_char(s[i])]

\* the characters str.strip(), str.split() and the pattern \s take as whitespace
IsSpace(c) == c \in {" ", "\t", "\n", "\r"}

\* sub in s
Contains(s, sub) ==
    \E i \in 0..(Len(s) - Len(sub)) : \A j \in 1..Len(sub) : s[i + j] = sub[j]

\* s.endswith(suffix)
EndsWith(s, suffix) ==
    /\ Len(suffix) <= Len(s)
    /\ \A j \in 1..Len(suffix) : s[Len(s) - Len(suffix) + j] = suffix[j]

\* s.strip()
Strip(s) ==
    LET solid == {i \in 1..Len(s) : ~IsSpace(s[i])}
    IN  IF solid = {} THEN <<>>
        ELSE SubSeq(s, CHOOSE i \in solid : \A j \in solid : i <= j,
                       CHOOSE i \in solid : \A j \in solid : i >= j)

\* s.replace(old, new) for one-character old and new
Replace(s, old, new) == [i \in 1..Len(s) |-> IF s[i] = old THEN new ELSE s[i]]

\* ' '.join(s.split()): the words of s, one space between two of them
JoinSplit(s) ==
    LET marked == [i \in 1..Len(s) |->
            [c |-> IF IsSpace(s[i]) THEN " " ELSE s[i],
             keep |-> \/ ~IsSpace(s[i])
                      \/ /\ i > 1
                         /\ ~IsSpace(s[i - 1])
                         /\ \E j \in (i + 1)..Len(s) : ~IsSpace(s[j])]]
        kept == SelectSeq(marked, LAMBDA x : x.keep)
    IN  [i \in 1..Len(kept) |-> kept[i].c]

\* sep.join(parts)
RECURSIVE Join(_, _)
Join(sep, parts) ==
    IF parts = <<>> THEN <<>>
    ELSE IF Len(parts) = 1 THEN parts[1]
    ELSE parts[1] \o sep \o Join(sep, Tail(parts))

\* the concatenation of a sequence of sequences
RECURSIVE Flatten(_)
Flatten(seqs) == IF seqs = <<>> THEN <<>> ELSE seqs[1] \o Flatten(Tail(seqs))

\* dict.get(key, default)
Get(d, key, default) == IF key \in DOMAIN d THEN d[key] ELSE default

-----------------------------------------------------------------------------
(* Regular expressions.  Every pattern of the rule catalog is a sequence   *)
(* of literal words separated by \s+, a word optionally followed by one    *)
(* optional character (Courts?): a sequence of W and Opt elements.  Matching *)
(* is case-insensitive (re.IGNORECASE).                                    *)

W(word) == [word |-> word, opt |-> <<>>]
Opt(word, c) == [word |-> word, opt |-> c]

\* the literal word w, case-insensitively, at position pos of text
MatchWord(text, pos, w) ==
    /\ pos + Len(w) - 1 <= Len(text)
    /\ \A j \in 1..Len(w) : lower_char(text[pos + j - 1]) = lower_char(w[j])

\* the first position at or after pos that holds no whitespace (\s+ is greedy)
RECURSIVE SkipSpaces(_, _)
SkipSpaces(text, pos) ==
    IF pos <= Len(text) /\ IsSpace(text[pos]) THEN SkipSpaces(text, pos + 1) ELSE pos

\* re.match of the elements k.. of pat at position pos: the position after the
\* match, or 0 when there is none.  The optional character is taken when it is
\* there; no element that follows can match in its place, so the greedy choice
\* is the only one.
RECURSIVE match_end(_, _, _, _)
match_end(text, pos, pat, k) ==
    LET e == pat[k]
        p1 == pos + Len(e.word)
        p2 == IF /\ e.opt # <<>>
                 /\ p1 <= Len(text)
                 /\ lower_char(text[p1]) = lower_char(e.opt[1])
              THEN p1 + 1 ELSE p1
    IN  IF ~MatchWord(text, pos, e.word) THEN 0
        ELSE IF k = Len(pat) THEN p2
        ELSE IF p2 > Len(text) \/ ~IsSpace(text[p2]) THEN 0
        ELSE match_end(text, SkipSpaces(text, p2), pat, k + 1)

\* the positions of text where pat matches
MatchStarts(pat, text) == {p \in 1..Len(text) : match_end(text, p, pat, 1) # 0}

\* [m.group() for m in re.finditer(pat, text, re.IGNORECASE)] from position pos:
\* the leftmost match at or after pos, then the matches after its end (no match
\* overlaps another, and no match is empty)
RECURSIVE finditer_from(_, _, _, _)
finditer_from(pat, text, starts, pos) ==
    LET cands == {p \in starts : p >= pos}
    IN  IF cands = {} THEN <<>>
        ELSE LET p == CHOOSE x \in cands : \A y \in cands : x <= y
                 e == match_end(text, p, pat, 1)
             IN  <<SubSeq(text, p, e - 1)>> \o finditer_from(pat, text, starts, e)

finditer(pat, text) == finditer_from(pat, text, MatchStarts(pat, text), 1)

-----------------------------------------------------------------------------
(* The rule catalog: ADGMComplianceChecker.__init__ *)

adgm_jurisdiction_patterns == <<
    <<W(<<"A","D","G","M">>), Opt(<<"C","o","u","r","t">>, <<"s">>)>>,  \* 'ADGM', 'Court', 's'
    <<W(<<"A","b","u">>), W(<<"D","h","a","b","i">>), W(<<"G","l","o","b","a","l">>), W(<<"M","a","r","k","e","t">>)>>,  \* 'Abu', 'Dhabi', 'Global', 'Market'
    <<W(<<"A","D","G","M">>), Opt(<<"C","o","m","p","a","n","i","e">>, <<"s">>), Opt(<<"R","e","g","u","l","a","t","i","o","n">>, <<"s">>)>>,  \* 'ADGM', 'Companie', 's', 'Regulation', 's'
    <<W(<<"A","D","G","M">>), W(<<"C","o","m","m","e","r","c","i","a","l">>), Opt(<<"R","e","g","u","l","a","t","i","o","n">>, <<"s">>)>> >>  \* 'ADGM', 'Commercial', 'Regulation', 's'

federal_court_patterns == <<
    <<W(<<"U","A","E">>), W(<<"F","e","d","e","r","a","l">>), Opt(<<"C","o","u","r","t">>, <<"s">>)>>,  \* 'UAE', 'Federal', 'Court', 's'
    <<W(<<"F","e","d","e","r","a","l">>), Opt(<<"C","o","u","r","t">>, <<"s">>), W(<<"o","f">>), W(<<"U","A","E">>)>>,  \* 'Federal', 'Court', 's', 'of', 'UAE'
    <<W(<<"D","u","b","a","i">>), Opt(<<"C","o","u","r","t">>, <<"s">>)>>,  \* 'Dubai', 'Court', 's'
    <<W(<<"A","b","u">>), W(<<"D","h","a","b","i">>), Opt(<<"C","o","u","r","t">>, <<"s">>)>> >>  \* 'Abu', 'Dhabi', 'Court', 's'

required_clauses ==
    ("Articles of Association" :> <<
        <<"c","o","m","p","a","n","y"," ","n","a","m","e">>,  \* 'company name'
        <<"r","e","g","i","s","t","e","r","e","d"," ","o","f","f","i","c","e">>,  \* 'registered office'
        <<"o","b","j","e","c","t","s"," ","c","l","a","u","s","e">>,  \* 'objects clause'
        <<"s","h","a","r","e"," ","c","a","p","i","t","a","l">>,  \* 'share capital'
        <<"d","i","r","e","c","t","o","r","s">>,  \* 'directors'
        <<"s","h","a","r","e","h","o","l","d","e","r","s">>,  \* 'shareholders'
        <<"a","m","e","n","d","m","e","n","t"," ","p","r","o","c","e","d","u","r","e","s">> >>)  \* 'amendment procedures'
    @@ ("Memorandum of Association" :> <<
        <<"c","o","m","p","a","n","y"," ","n","a","m","e">>,  \* 'company name'
        <<"r","e","g","i","s","t","e","r","e","d"," ","o","f","f","i","c","e">>,  \* 'registered office'
        <<"o","b","j","e","c","t","s">>,  \* 'objects'
        <<"l","i","a","b","i","l","i","t","y">>,  \* 'liability'
        <<"s","h","a","r","e"," ","c","a","p","i","t","a","l">>,  \* 'share capital'
        <<"s","u","b","s","c","r","i","b","e","r","s">> >>)  \* 'subscribers'
    @@ ("Board Resolution" :> <<
        <<"d","a","t","e">>,  \* 'date'
        <<"d","i","r","e","c","t","o","r","s"," ","p","r","e","s","e","n","t">>,  \* 'directors present'
        <<"r","e","s","o","l","u","t","i","o","n"," ","t","e","x","t">>,  \* 'resolution text'
        <<"v","o","t","i","n","g"," ","r","e","s","u","l","t","s">>,  \* 'voting results'
        <<"s","i","g","n","a","t","u","r","e","s">> >>)  \* 'signatures'

ambiguous_patterns == <<
    <<W(<<"m","a","y">>), W(<<"o","r">>), W(<<"m","a","y">>), W(<<"n","o","t">>)>>,  \* 'may', 'or', 'may', 'not'
    <<W(<<"a","t">>), W(<<"o","u","r">>), W(<<"d","i","s","c","r","e","t","i","o","n">>)>>,  \* 'at', 'our', 'discretion'
    <<W(<<"r","e","a","s","o","n","a","b","l","e">>), Opt(<<"e","f","f","o","r","t">>, <<"s">>)>>,  \* 'reasonable', 'effort', 's'
    <<W(<<"b","e","s","t">>), Opt(<<"e","n","d","e","a","v","o","u","r">>, <<"s">>)>>,  \* 'best', 'endeavour', 's'
    <<W(<<"s","u","b","j","e","c","t">>), W(<<"t","o">>), W(<<"a","v","a","i","l","a","b","i","l","i","t","y">>)>> >>  \* 'subject', 'to', 'availability'

-----------------------------------------------------------------------------
(* The process checklist catalog: DocumentChecklistVerifier.__init__ *)

DocumentRequirement(name, mandatory, description, reference, keywords) ==
    [document_name |-> name,
     is_mandatory |-> mandatory,
     description |-> description,
     adgm_reference |-> reference,
     content_keywords |-> keywords]

process_checklists ==
    ("Company Incorporation" :> <<
        DocumentRequirement(
            <<"A","r","t","i","c","l","e","s"," ","o","f"," ","A","s","s","o","c","i","a","t","i","o","n">>,  \* 'Articles of Association'
            TRUE,
            "Constitutional document defining company structure",
            "ADGM Companies Regulations 2020, Art. 6",
            <<
              <<"a","r","t","i","c","l","e","s"," ","o","f"," ","a","s","s","o","c","i","a","t","i","o","n">>,  \* 'articles of association'
              <<"c","o","m","p","a","n","y"," ","a","r","t","i","c","l","e","s">>,  \* 'company articles'
              <<"a","o","a">>,  \* 'aoa'
              <<"a","r","t","i","c","l","e","s">>,  \* 'articles'
              <<"c","o","n","s","t","i","t","u","t","i","o","n","a","l"," ","d","o","c","u","m","e","n","t">>,  \* 'constitutional document'
              <<"c","o","m","p","a","n","y"," ","s","t","r","u","c","t","u","r","e">> >>),  \* 'company structure'
        DocumentRequirement(
            <<"M","e","m","o","r","a","n","d","u","m"," ","o","f"," ","A","s","s","o","c","i","a","t","i","o","n">>,  \* 'Memorandum of Association'
            TRUE,
            "Document establishing company and its objects",
            "ADGM Companies Regulations 2020, Art. 6",
            <<
              <<"m","e","m","o","r","a","n","d","u","m"," ","o","f"," ","a","s","s","o","c","i","a","t","i","o","n">>,  \* 'memorandum of association'
              <<"c","o","m","p","a","n","y"," ","m","e","m","o","r","a","n","d","u","m">>,  \* 'company memorandum'
              <<"m","e","m","o","r","a","n","d","u","m">>,  \* 'memorandum'
              <<"c","o","m","p","a","n","y"," ","o","b","j","e","c","t","s">>,  \* 'company objects'
              <<"c","o","m","p","a","n","y"," ","e","s","t","a","b","l","i","s","h","m","e","n","t">> >>),  \* 'company establishment'
        DocumentRequirement(
            <<"B","o","a","r","d"," ","R","e","s","o","l","u","t","i","o","n">>,  \* 'Board Resolution'
            TRUE,
            "Resolution authorizing incorporation",
            "ADGM Companies Regulations 2020, Art. 22",
            <<
              <<"b","o","a","r","d"," ","r","e","s","o","l","u","t","i","o","n">>,  \* 'board resolution'
              <<"b","o","a","r","d"," ","m","e","e","t","i","n","g">>,  \* 'board meeting'
              <<"d","i","r","e","c","t","o","r","s"," ","r","e","s","o","l","u","t","i","o","n">>,  \* 'directors resolution'
              <<"b","o","a","r","d"," ","d","e","c","i","s","i","o","n">>,  \* 'board decision'
              <<"d","i","r","e","c","t","o","r","s"," ","d","e","c","i","s","i","o","n">> >>),  \* 'directors decision'
        DocumentRequirement(
            <<"S","h","a","r","e","h","o","l","d","e","r"," ","R","e","s","o","l","u","t","i","o","n">>,  \* 'Shareholder Resolution'
            TRUE,
            "Resolution approving incorporation",
            "ADGM Companies Regulations 2020, Art. 15",
            <<
              <<"s","h","a","r","e","h","o","l","d","e","r"," ","r","e","s","o","l","u","t","i","o","n">>,  \* 'shareholder resolution'
              <<"s","h","a","r","e","h","o","l","d","e","r","s"," ","r","e","s","o","l","u","t","i","o","n">>,  \* 'shareholders resolution'
              <<"m","e","m","b","e","r"," ","r","e","s","o","l","u","t","i","o","n">>,  \* 'member resolution'
              <<"s","h","a","r","e","h","o","l","d","e","r"," ","d","e","c","i","s","i","o","n">>,  \* 'shareholder decision'
              <<"m","e","m","b","e","r"," ","d","e","c","i","s","i","o","n">> >>),  \* 'member decision'
        DocumentRequirement(
            <<"I","n","c","o","r","p","o","r","a","t","i","o","n"," ","A","p","p","l","i","c","a","t","i","o","n"," ","F","o","r","m">>,  \* 'Incorporation Application Form'
            TRUE,
            "Official application for company registration",
            "ADGM Companies Regulations 2020, Art. 6",
            <<
              <<"i","n","c","o","r","p","o","r","a","t","i","o","n"," ","a","p","p","l","i","c","a","t","i","o","n">>,  \* 'incorporation application'
              <<"c","o","m","p","a","n","y"," ","r","e","g","i","s","t","r","a","t","i","o","n">>,  \* 'company registration'
              <<"i","n","c","o","r","p","o","r","a","t","i","o","n"," ","f","o","r","m">>,  \* 'incorporation form'
              <<"r","e","g","i","s","t","r","a","t","i","o","n"," ","a","p","p","l","i","c","a","t","i","o","n">>,  \* 'registration application'
              <<"c","o","m","p","a","n","y"," ","f","o","r","m","a","t","i","o","n">> >>),  \* 'company formation'
        DocumentRequirement(
            <<"U","B","O"," ","D","e","c","l","a","r","a","t","i","o","n"," ","F","o","r","m">>,  \* 'UBO Declaration Form'
            TRUE,
            "Ultimate Beneficial Owner declaration",
            "ADGM Companies Regulations 2020, Art. 45",
            <<
              <<"u","b","o"," ","d","e","c","l","a","r","a","t","i","o","n">>,  \* 'ubo declaration'
              <<"u","l","t","i","m","a","t","e"," ","b","e","n","e","f","i","c","i","a","l"," ","o","w","n","e","r">>,  \* 'ultimate beneficial owner'
              <<"b","e","n","e","f","i","c","i","a","l"," ","o","w","n","e","r">>,  \* 'beneficial owner'
              <<"u","b","o"," ","f","o","r","m">>,  \* 'ubo form'
              <<"o","w","n","e","r","s","h","i","p"," ","d","e","c","l","a","r","a","t","i","o","n">> >>),  \* 'ownership declaration'
        DocumentRequirement(
            <<"R","e","g","i","s","t","e","r"," ","o","f"," ","M","e","m","b","e","r","s"," ","a","n","d"," ","D","i","r","e","c","t","o","r","s">>,  \* 'Register of Members and Directors'
            TRUE,
            "Register of company members and directors",
            "ADGM Companies Regulations 2020, Art. 22",
            <<
              <<"r","e","g","i","s","t","e","r"," ","o","f"," ","m","e","m","b","e","r","s">>,  \* 'register of members'
              <<"r","e","g","i","s","t","e","r"," ","o","f"," ","d","i","r","e","c","t","o","r","s">>,  \* 'register of directors'
              <<"m","e","m","b","e","r","s"," ","r","e","g","i","s","t","e","r">>,  \* 'members register'
              <<"d","i","r","e","c","t","o","r","s"," ","r","e","g","i","s","t","e","r">>,  \* 'directors register'
              <<"c","o","m","p","a","n","y"," ","r","e","g","i","s","t","e","r">> >>),  \* 'company register'
        DocumentRequirement(
            <<"C","h","a","n","g","e"," ","o","f"," ","R","e","g","i","s","t","e","r","e","d"," ","A","d","d","r","e","s","s"," ","N","o","t","i","c","e">>,  \* 'Change of Registered Address Notice'
            FALSE,
            "Notice of registered office address",
            "ADGM Companies Regulations 2020, Art. 8",
            <<
              <<"c","h","a","n","g","e"," ","o","f"," ","a","d","d","r","e","s","s">>,  \* 'change of address'
              <<"r","e","g","i","s","t","e","r","e","d"," ","a","d","d","r","e","s","s">>,  \* 'registered address'
              <<"o","f","f","i","c","e"," ","a","d","d","r","e","s","s">>,  \* 'office address'
              <<"a","d","d","r","e","s","s"," ","c","h","a","n","g","e">>,  \* 'address change'
              <<"r","e","g","i","s","t","e","r","e","d"," ","o","f","f","i","c","e">> >>) >>)  \* 'registered office'
    @@ ("Business Licensing" :> <<
        DocumentRequirement(
            <<"L","i","c","e","n","s","e"," ","A","p","p","l","i","c","a","t","i","o","n"," ","F","o","r","m">>,  \* 'License Application Form'
            TRUE,
            "Application for business license",
            "ADGM Commercial Regulations, Art. 3",
            <<
              <<"l","i","c","e","n","s","e"," ","a","p","p","l","i","c","a","t","i","o","n">>,  \* 'license application'
              <<"b","u","s","i","n","e","s","s"," ","l","i","c","e","n","s","e">>,  \* 'business license'
              <<"l","i","c","e","n","s","i","n","g"," ","a","p","p","l","i","c","a","t","i","o","n">>,  \* 'licensing application'
              <<"p","e","r","m","i","t"," ","a","p","p","l","i","c","a","t","i","o","n">>,  \* 'permit application'
              <<"b","u","s","i","n","e","s","s"," ","p","e","r","m","i","t">> >>),  \* 'business permit'
        DocumentRequirement(
            <<"B","u","s","i","n","e","s","s"," ","P","l","a","n">>,  \* 'Business Plan'
            TRUE,
            "Detailed business plan and projections",
            "ADGM Commercial Regulations, Art. 3",
            <<
              <<"b","u","s","i","n","e","s","s"," ","p","l","a","n">>,  \* 'business plan'
              <<"b","u","s","i","n","e","s","s"," ","s","t","r","a","t","e","g","y">>,  \* 'business strategy'
              <<"b","u","s","i","n","e","s","s"," ","p","r","o","p","o","s","a","l">>,  \* 'business proposal'
              <<"b","u","s","i","n","e","s","s"," ","m","o","d","e","l">>,  \* 'business model'
              <<"b","u","s","i","n","e","s","s"," ","p","r","o","j","e","c","t","i","o","n","s">> >>),  \* 'business projections'
        DocumentRequirement(
            <<"F","i","n","a","n","c","i","a","l"," ","S","t","a","t","e","m","e","n","t","s">>,  \* 'Financial Statements'
            TRUE,
            "Audited financial statements",
            "ADGM Commercial Regulations, Art. 8",
            <<
              <<"f","i","n","a","n","c","i","a","l"," ","s","t","a","t","e","m","e","n","t","s">>,  \* 'financial statements'
              <<"f","i","n","a","n","c","i","a","l"," ","r","e","p","o","r","t">>,  \* 'financial report'
              <<"a","u","d","i","t","e","d"," ","a","c","c","o","u","n","t","s">>,  \* 'audited accounts'
              <<"f","i","n","a","n","c","i","a","l"," ","a","c","c","o","u","n","t","s">>,  \* 'financial accounts'
              <<"b","a","l","a","n","c","e"," ","s","h","e","e","t">> >>),  \* 'balance sheet'
        DocumentRequirement(
            <<"C","o","m","p","l","i","a","n","c","e"," ","P","o","l","i","c","y">>,  \* 'Compliance Policy'
            TRUE,
            "Compliance and risk management policy",
            "ADGM Commercial Regulations, Art. 12",
            <<
              <<"c","o","m","p","l","i","a","n","c","e"," ","p","o","l","i","c","y">>,  \* 'compliance policy'
              <<"r","i","s","k"," ","m","a","n","a","g","e","m","e","n","t">>,  \* 'risk management'
              <<"c","o","m","p","l","i","a","n","c","e"," ","p","r","o","c","e","d","u","r","e","s">>,  \* 'compliance procedures'
              <<"r","i","s","k"," ","p","o","l","i","c","y">>,  \* 'risk policy'
              <<"c","o","m","p","l","i","a","n","c","e"," ","f","r","a","m","e","w","o","r","k">> >>),  \* 'compliance framework'
        DocumentRequirement(
            <<"B","o","a","r","d"," ","R","e","s","o","l","u","t","i","o","n">>,  \* 'Board Resolution'
            TRUE,
            "Resolution approving license application",
            "ADGM Commercial Regulations, Art. 3",
            <<
              <<"b","o","a","r","d"," ","r","e","s","o","l","u","t","i","o","n">>,  \* 'board resolution'
              <<"b","o","a","r","d"," ","m","e","e","t","i","n","g">>,  \* 'board meeting'
              <<"d","i","r","e","c","t","o","r","s"," ","r","e","s","o","l","u","t","i","o","n">>,  \* 'directors resolution'
              <<"b","o","a","r","d"," ","d","e","c","i","s","i","o","n">>,  \* 'board decision'
              <<"d","i","r","e","c","t","o","r","s"," ","d","e","c","i","s","i","o","n">> >>) >>)  \* 'directors decision'
    @@ ("Employment Contracts" :> <<
        DocumentRequirement(
            <<"E","m","p","l","o","y","m","e","n","t"," ","C","o","n","t","r","a","c","t">>,  \* 'Employment Contract'
            TRUE,
            "Standard employment agreement",
            "ADGM Employment Regulations",
            <<
              <<"e","m","p","l","o","y","m","e","n","t"," ","c","o","n","t","r","a","c","t">>,  \* 'employment contract'
              <<"e","m","p","l","o","y","m","e","n","t"," ","a","g","r","e","e","m","e","n","t">>,  \* 'employment agreement'
              <<"w","o","r","k"," ","c","o","n","t","r","a","c","t">>,  \* 'work contract'
              <<"e","m","p","l","o","y","m","e","n","t"," ","t","e","r","m","s">>,  \* 'employment terms'
              <<"w","o","r","k"," ","a","g","r","e","e","m","e","n","t">> >>),  \* 'work agreement'
        DocumentRequirement(
            <<"J","o","b"," ","D","e","s","c","r","i","p","t","i","o","n">>,  \* 'Job Description'
            TRUE,
            "Detailed job role and responsibilities",
            "ADGM Employment Regulations",
            <<
              <<"j","o","b"," ","d","e","s","c","r","i","p","t","i","o","n">>,  \* 'job description'
              <<"r","o","l","e"," ","d","e","s","c","r","i","p","t","i","o","n">>,  \* 'role description'
              <<"p","o","s","i","t","i","o","n"," ","d","e","s","c","r","i","p","t","i","o","n">>,  \* 'position description'
              <<"j","o","b"," ","r","e","s","p","o","n","s","i","b","i","l","i","t","i","e","s">>,  \* 'job responsibilities'
              <<"r","o","l","e"," ","r","e","q","u","i","r","e","m","e","n","t","s">> >>),  \* 'role requirements'
        DocumentRequirement(
            <<"C","o","m","p","a","n","y"," ","P","o","l","i","c","i","e","s">>,  \* 'Company Policies'
            FALSE,
            "Relevant company policies and procedures",
            "ADGM Employment Regulations",
            <<
              <<"c","o","m","p","a","n","y"," ","p","o","l","i","c","i","e","s">>,  \* 'company policies'
              <<"c","o","m","p","a","n","y"," ","p","r","o","c","e","d","u","r","e","s">>,  \* 'company procedures'
              <<"w","o","r","k","p","l","a","c","e"," ","p","o","l","i","c","i","e","s">>,  \* 'workplace policies'
              <<"e","m","p","l","o","y","m","e","n","t"," ","p","o","l","i","c","i","e","s">>,  \* 'employment policies'
              <<"c","o","m","p","a","n","y"," ","r","u","l","e","s">> >>),  \* 'company rules'
        DocumentRequirement(
            <<"B","o","a","r","d"," ","R","e","s","o","l","u","t","i","o","n">>,  \* 'Board Resolution'
            TRUE,
            "Resolution approving employment terms",
            "ADGM Employment Regulations",
            <<
              <<"b","o","a","r","d"," ","r","e","s","o","l","u","t","i","o","n">>,  \* 'board resolution'
              <<"b","o","a","r","d"," ","m","e","e","t","i","n","g">>,  \* 'board meeting'
              <<"d","i","r","e","c","t","o","r","s"," ","r","e","s","o","l","u","t","i","o","n">>,  \* 'directors resolution'
              <<"b","o","a","r","d"," ","d","e","c","i","s","i","o","n">>,  \* 'board decision'
              <<"d","i","r","e","c","t","o","r","s"," ","d","e","c","i","s","i","o","n">> >>) >>)  \* 'directors decision'
    @@ ("Commercial Agreements" :> <<
        DocumentRequirement(
            <<"C","o","m","m","e","r","c","i","a","l"," ","A","g","r","e","e","m","e","n","t">>,  \* 'Commercial Agreement'
            TRUE,
            "Main commercial contract",
            "ADGM Commercial Regulations",
            <<
              <<"c","o","m","m","e","r","c","i","a","l"," ","a","g","r","e","e","m","e","n","t">>,  \* 'commercial agreement'
              <<"c","o","m","m","e","r","c","i","a","l"," ","c","o","n","t","r","a","c","t">>,  \* 'commercial contract'
              <<"b","u","s","i","n","e","s","s"," ","a","g","r","e","e","m","e","n","t">>,  \* 'business agreement'
              <<"c","o","m","m","e","r","c","i","a","l"," ","t","e","r","m","s">>,  \* 'commercial terms'
              <<"b","u","s","i","n","e","s","s"," ","c","o","n","t","r","a","c","t">> >>),  \* 'business contract'
        DocumentRequirement(
            <<"D","u","e"," ","D","i","l","i","g","e","n","c","e"," ","R","e","p","o","r","t">>,  \* 'Due Diligence Report'
            TRUE,
            "Due diligence findings",
            "ADGM Commercial Regulations",
            <<
              <<"d","u","e"," ","d","i","l","i","g","e","n","c","e">>,  \* 'due diligence'
              <<"d","u","e"," ","d","i","l","i","g","e","n","c","e"," ","r","e","p","o","r","t">>,  \* 'due diligence report'
              <<"d","i","l","i","g","e","n","c","e"," ","f","i","n","d","i","n","g","s">>,  \* 'diligence findings'
              <<"i","n","v","e","s","t","i","g","a","t","i","o","n"," ","r","e","p","o","r","t">>,  \* 'investigation report'
              <<"b","a","c","k","g","r","o","u","n","d"," ","c","h","e","c","k">> >>),  \* 'background check'
        DocumentRequirement(
            <<"B","o","a","r","d"," ","R","e","s","o","l","u","t","i","o","n">>,  \* 'Board Resolution'
            TRUE,
            "Resolution approving agreement",
            "ADGM Commercial Regulations",
            <<
              <<"b","o","a","r","d"," ","r","e","s","o","l","u","t","i","o","n">>,  \* 'board resolution'
              <<"b","o","a","r","d"," ","m","e","e","t","i","n","g">>,  \* 'board meeting'
              <<"d","i","r","e","c","t","o","r","s"," ","r","e","s","o","l","u","t","i","o","n">>,  \* 'directors resolution'
              <<"b","o","a","r","d"," ","d","e","c","i","s","i","o","n">>,  \* 'board decision'
              <<"d","i","r","e","c","t","o","r","s"," ","d","e","c","i","s","i","o","n">> >>),  \* 'directors decision'
        DocumentRequirement(
            <<"L","e","g","a","l"," ","O","p","i","n","i","o","n">>,  \* 'Legal Opinion'
            FALSE,
            "Legal opinion on agreement terms",
            "ADGM Commercial Regulations",
            <<
              <<"l","e","g","a","l"," ","o","p","i","n","i","o","n">>,  \* 'legal opinion'
              <<"l","e","g","a","l"," ","a","d","v","i","c","e">>,  \* 'legal advice'
              <<"l","e","g","a","l"," ","a","s","s","e","s","s","m","e","n","t">>,  \* 'legal assessment'
              <<"l","e","g","a","l"," ","r","e","v","i","e","w">>,  \* 'legal review'
              <<"l","e","g","a","l"," ","c","o","u","n","s","e","l">> >>) >>)  \* 'legal counsel'

-----------------------------------------------------------------------------
(* The tables that the two __init__ methods assign to the instance: the     *)
(* methods read them from self at every call.                               *)

Catalog ==
    [adgm_jurisdiction_patterns |-> adgm_jurisdiction_patterns,
     federal_court_patterns |-> federal_court_patterns,
     required_clauses |-> required_clauses,
     process_checklists |-> process_checklists]

\* the instances are as __init__ left them, and no call was made on them
InstanceIdle ==
    /\ catalog = Catalog
    /\ first_call = <<>>

-----------------------------------------------------------------------------
(* The four checks.  A ComplianceIssue is the record of its issue_type,    *)
(* severity and clause; its other fields are fixed texts of the issue type. *)

ComplianceIssue(type, sev, clause) ==
    [issue_type |-> type, severity |-> sev, clause |-> clause]

\* one issue of the given type for every match of every pattern, in pattern order
MatchIssues(patterns, text, type, sev) ==
    Flatten([p \in 1..Len(patterns) |->
        LET ms == finditer(patterns[p], text)
        IN  [i \in 1..Len(ms) |-> ComplianceIssue(type, sev, ms[i])]])

\* the missing reference is reported only when no forbidden reference is found
check_jurisdiction_compliance_exclusive(text) ==
    LET adgm_references ==
            Len(Flatten([p \in 1..Len(catalog.adgm_jurisdiction_patterns) |->
                finditer(catalog.adgm_jurisdiction_patterns[p], text)]))
        found == MatchIssues(catalog.federal_court_patterns, text, "Jurisdiction Error",
                              "High")
    IN  IF found # <<>> THEN found
        ELSE IF adgm_references = 0
        THEN <<ComplianceIssue("Missing ADGM Reference", "High",
                               <<"N","o"," ","A","D","G","M"," ","r","e","f","e","r","e","n","c","e"," ","f","o","u","n","d">>)>>  \* 'No ADGM reference found'
        ELSE <<>>

check_jurisdiction_compliance(text) ==
    LET adgm_references ==
            Len(Flatten([p \in 1..Len(catalog.adgm_jurisdiction_patterns) |->
                finditer(catalog.adgm_jurisdiction_patterns[p], text)]))
    IN  MatchIssues(catalog.federal_court_patterns, text, "Jurisdiction Error", "High")
        \o (IF adgm_references = 0
            THEN <<ComplianceIssue("Missing ADGM Reference", "High",
                                   <<"N","o"," ","A","D","G","M"," ","r","e","f","e","r","e","n","c","e"," ","f","o","u","n","d">>)>>  \* 'No ADGM reference found'
            ELSE <<>>)

\* the loop over the required clauses stops at the first missing one
check_required_clauses_first_only(doc_type, text) ==
    IF doc_type \notin DOMAIN catalog.required_clauses THEN <<>>
    ELSE LET required == catalog.required_clauses[doc_type]
             content_lower == lower(text)
             missing == SelectSeq(required, LAMBDA c : ~Contains(content_lower, c))
         IN  IF missing = <<>> THEN <<>>
             ELSE <<ComplianceIssue("Missing Required Clause", "High", missing[1])>>

\* the clause phrases are looked up in the text as written, not lowered
check_required_clauses_case_sensitive(doc_type, text) ==
    IF doc_type \notin DOMAIN catalog.required_clauses THEN <<>>
    ELSE LET required == catalog.required_clauses[doc_type]
         IN  Flatten([c \in 1..Len(required) |->
                 IF ~Contains(text, required[c])
                 THEN <<ComplianceIssue("Missing Required Clause", "High", required[c])>>
                 ELSE <<>>])

check_required_clauses(doc_type, text) ==
    IF doc_type \notin DOMAIN catalog.required_clauses THEN <<>>
    ELSE LET required == catalog.required_clauses[doc_type]
             content_lower == lower(text)
         IN  Flatten([c \in 1..Len(required) |->
                 IF ~Contains(content_lower, required[c])
                 THEN <<ComplianceIssue("Missing Required Clause", "High", required[c])>>
                 ELSE <<>>])

check_legal_language(text) ==
    MatchIssues(ambiguous_patterns, text, "Ambiguous Language", "Medium")

\* a structure with one section is taken as well structured
check_formatting_compliance_one_section(struct) ==
    (IF Get(struct, "title", <<>>) = <<>>
     THEN <<ComplianceIssue("Missing Title", "Medium", <<"N","o"," ","t","i","t","l","e"," ","f","o","u","n","d">>)>>  \* 'No title found'
     ELSE <<>>)
    \o (IF Len(Get(struct, "sections", <<>>)) < 1
        THEN <<ComplianceIssue("Poor Structure", "Low", <<"I","n","s","u","f","f","i","c","i","e","n","t"," ","s","e","c","t","i","o","n","s">>)>>  \* 'Insufficient sections'
        ELSE <<>>)

check_formatting_compliance(struct) ==
    (IF Get(struct, "title", <<>>) = <<>>
     THEN <<ComplianceIssue("Missing Title", "Medium", <<"N","o"," ","t","i","t","l","e"," ","f","o","u","n","d">>)>>  \* 'No title found'
     ELSE <<>>)
    \o (IF Len(Get(struct, "sections", <<>>)) < 2
        THEN <<ComplianceIssue("Poor Structure", "Low", <<"I","n","s","u","f","f","i","c","i","e","n","t"," ","s","e","c","t","i","o","n","s">>)>>  \* 'Insufficient sections'
        ELSE <<>>)

-----------------------------------------------------------------------------
(* Scoring: check_compliance, lines 213-246 *)

CountSeverity(issues, sev) ==
    Cardinality({i \in 1..Len(issues) : issues[i].severity = sev})

\* weighted_score
weighted_score_swapped(high, medium, low) == high * 1 + medium * 2 + low * 3
weighted_score_low_free(high, medium, low) == high * 3 + medium * 2 + low * 0
weighted_score(high, medium, low) == high * 3 + medium * 2 + low * 1

\* max_possible_score
max_possible_score_by_2(total) == total * 2
max_possible_score_by_4(total) == total * 4
max_possible_score(total) == total * 3

\* compliance_score before rounding, as the fraction num/den:
\* 100 when there is no issue, else max(0, 100 - (weighted / max_possible) * 100)
compliance_score(high, medium, low, total) ==
    IF total = 0 THEN [num |-> 100, den |-> 1]
    ELSE LET weighted == weighted_score(high, medium, low)
             maxp == max_possible_score(total)
             num == 100 * maxp - 100 * weighted
         IN  [num |-> IF num < 0 THEN 0 ELSE num, den |-> maxp]

\* round(x, 2) for x = f.num / f.den >= 0, in hundredths; a tie goes to the even
\* neighbour
round2(f) ==
    LET n == 100 * f.num
        q == n \div f.den
        r == n % f.den
    IN  IF 2 * r < f.den THEN q
        ELSE IF 2 * r > f.den THEN q + 1
        ELSE IF q % 2 = 0 THEN q ELSE q + 1

\* 'is_compliant': compliance_score >= 80, on the unrounded score
is_compliant_from_60(f) == f.num >= 60 * f.den
is_compliant(f) == f.num >= 80 * f.den

\* the dict check_compliance returns for a list of issues
ComplianceReport(checked_issues) ==
    LET total_checks == Len(checked_issues)
        high_severity == CountSeverity(checked_issues, "High")
        medium_severity == CountSeverity(checked_issues, "Medium")
        low_severity == CountSeverity(checked_issues, "Low")
        score == compliance_score(high_severity, medium_severity, low_severity,
                                  total_checks)
    IN  [compliance_score |-> round2(score),
         total_issues |-> total_checks,
         high_severity_issues |-> high_severity,
         medium_severity_issues |-> medium_severity,
         low_severity_issues |-> low_severity,
         issues |-> checked_issues,
         is_compliant |-> is_compliant(score)]

-----------------------------------------------------------------------------
(* The inputs of check_compliance. *)

Fragments == {
    <<"U","A","E"," ","F","e","d","e","r","a","l"," ","C","o","u","r","t","s">>,  \* 'UAE Federal Courts'
    <<"s","u","b","j","e","c","t"," ","t","o"," ","t","h","e"," ","A","D","G","M"," ","C","o","u","r","t","s">>,  \* 'subject to the ADGM Courts'
    <<"r","e","a","s","o","n","a","b","l","e"," ","e","f","f","o","r","t","s">>,  \* 'reasonable efforts'
    <<"C","o","m","p","a","n","y"," ","N","a","m","e">>,  \* 'Company Name'
    <<"d","a","t","e"," ","d","i","r","e","c","t","o","r","s"," ","p","r","e","s","e","n","t"," ","r","e","s","o","l","u","t","i","o","n"," ","t","e","x","t"," ","v","o","t","i","n","g"," ","r","e","s","u","l","t","s"," ","s","i","g","n","a","t","u","r","e","s">> }  \* 'date directors present resolution text voting results signatures'

RECURSIVE SeqsUpTo(_, _)
SeqsUpTo(S, n) ==
    IF n = 0 THEN {<<>>}
    ELSE LET shorter == SeqsUpTo(S, n - 1)
         IN  shorter \cup {Append(s, x) : s \in shorter, x \in S}

\* extract_text joins the paragraphs of a document with a newline
Contents == {Join(<<"\n">>, fs) : fs \in SeqsUpTo(Fragments, MaxFragments)}

DocumentTypes == {"Articles of Association", "Board Resolution", "Employment Contract"}

Section == [title |-> <<"1","."," ","S","c","o","p","e",":">>, content |-> <<>>]  \* '1. Scope:'

\* well-formed structures, and structures that lack keys
Structures == {
    [title |-> <<"B","o","a","r","d"," ","R","e","s","o","l","u","t","i","o","n">>, sections |-> <<Section, Section>>],  \* 'Board Resolution'
    [title |-> <<"B","o","a","r","d"," ","R","e","s","o","l","u","t","i","o","n">>, sections |-> <<Section>>],  \* 'Board Resolution'
    [title |-> <<>>, sections |-> <<Section, Section, Section>>],
    [title |-> <<"B","o","a","r","d"," ","R","e","s","o","l","u","t","i","o","n">>],  \* 'Board Resolution'
    [sections |-> <<Section, Section>>],
    [k \in {} |-> <<>>] }

\* no process_documents call is running
PipelineIdle ==
    /\ files = None
    /\ file_index = 0
    /\ processed_documents = <<>>
    /\ all_issues = <<>>
    /\ errors = <<>>

\* no call of a single function is running
CallIdle ==
    /\ args = None
    /\ ret = None
    /\ PipelineIdle

\* no verify_checklist call is running
ChecklistIdle ==
    /\ uploaded_documents = None
    /\ process_type = None
    /\ doc_index = 0
    /\ found_documents = {}
    /\ result = None
    /\ calls = <<>>

-----------------------------------------------------------------------------
(* check_compliance as a state machine. *)

InitCompliance ==
    /\ InstanceIdle
    /\ pc = "check_compliance"
    /\ document_type \in DocumentTypes
    /\ content \in Contents
    /\ structure \in Structures
    /\ report = None
    /\ sev_counts = None
    /\ scores = None
    /\ ChecklistIdle
    /\ CallIdle

check_compliance ==
    /\ pc = "check_compliance"
    /\ report' = ComplianceReport(
                    check_jurisdiction_compliance(content)
                    \o check_required_clauses(document_type, content)
                    \o check_legal_language(content)
                    \o check_formatting_compliance(structure))
    /\ pc' = "returned"
    /\ UNCHANGED <<document_type, content, structure, scoreVars, checklistVars, callVars, pipelineVars, instanceVars>>

NextCompliance == check_compliance

SpecCompliance == InitCompliance /\ [][NextCompliance]_vars

-----------------------------------------------------------------------------
(* The scoring of check_compliance applied to severity counts. *)

InitScore ==
    /\ InstanceIdle
    /\ pc = "score"
    /\ sev_counts \in [high : 0..MaxCount, medium : 0..MaxCount, low : 0..MaxCount]
    /\ scores = None
    /\ document_type = None
    /\ content = None
    /\ structure = None
    /\ report = None
    /\ ChecklistIdle
    /\ CallIdle

\* the score of sev_counts, and of sev_counts with one more High issue
ScoreCounts ==
    /\ pc = "score"
    /\ LET c == sev_counts
           f == compliance_score(c.high, c.medium, c.low, c.high + c.medium + c.low)
           g == compliance_score(c.high + 1, c.medium, c.low,
                                 c.high + 1 + c.medium + c.low)
       IN  scores' = [score |-> round2(f), compliant |-> is_compliant(f),
                      one_more_high |-> round2(g)]
    /\ pc' = "scored"
    /\ UNCHANGED <<sev_counts, complianceVars, checklistVars, callVars, pipelineVars, instanceVars>>

NextScore == ScoreCounts

SpecScore == InitScore /\ [][NextScore]_vars

-----------------------------------------------------------------------------
(* The document matcher. *)

common_extensions == <<<<".","d","o","c","x">>, <<".","d","o","c">>, <<".","p","d","f">>, <<".","t","x","t">>, <<".","r","t","f">>, <<".","o","d","t">>>>  \* '.docx', '.doc', '.pdf', '.txt', '.rtf', '.odt'

\* _normalize_filename without the final ' '.join(... .split())
normalize_filename_unsplit(filename) ==
    LET stripped == Strip(filename)
        filename_lower == lower(stripped)
        hits == {e \in 1..Len(common_extensions) :
                    EndsWith(filename_lower, common_extensions[e])}
        name_without_ext ==
            IF hits = {} THEN stripped
            ELSE LET ext == common_extensions[CHOOSE e \in hits : \A f \in hits : e <= f]
                 IN  SubSeq(stripped, 1, Len(stripped) - Len(ext))
    IN  lower(Replace(Replace(Replace(name_without_ext, "_", " "), "-", " "),
                      ".", " "))

\* _normalize_filename
normalize_filename(filename) ==
    LET stripped == Strip(filename)
        filename_lower == lower(stripped)
        hits == {e \in 1..Len(common_extensions) :
                    EndsWith(filename_lower, common_extensions[e])}
        name_without_ext ==
            IF hits = {} THEN stripped
            ELSE LET ext == common_extensions[CHOOSE e \in hits : \A f \in hits : e <= f]
                 IN  SubSeq(stripped, 1, Len(stripped) - Len(ext))
        normalized == Replace(Replace(Replace(name_without_ext, "_", " "), "-", " "),
                              ".", " ")
    IN  JoinSplit(lower(normalized))

\* some keyword of the requirement, lower-cased, is in the lower-cased string
KeywordIn(required_doc, s) ==
    \E k \in 1..Len(required_doc.content_keywords) :
        Contains(lower(s), lower(required_doc.content_keywords[k]))

\* the normalized file name is not compared with the document name
match_document_type_keywords_only(text, filename, required_doc) ==
    \/ KeywordIn(required_doc, text)
    \/ KeywordIn(required_doc, filename)

match_document_type_case_sensitive(text, filename, required_doc) ==
    \/ \E k \in 1..Len(required_doc.content_keywords) :
           Contains(text, lower(required_doc.content_keywords[k]))
    \/ normalize_filename(filename) = normalize_filename(required_doc.document_name)
    \/ KeywordIn(required_doc, filename)

match_document_type(text, filename, required_doc) ==
    \/ KeywordIn(required_doc, text)
    \/ normalize_filename(filename) = normalize_filename(required_doc.document_name)
    \/ KeywordIn(required_doc, filename)

\* the return statement match_document_type reaches: 1 for the keyword found in
\* the text, 2 for the equal normalized names, 3 for the keyword found in the
\* raw filename, 0 for the final return False
match_step(text, filename, required_doc) ==
    IF KeywordIn(required_doc, text) THEN 1
    ELSE IF normalize_filename(filename)
                = normalize_filename(required_doc.document_name) THEN 2
    ELSE IF KeywordIn(required_doc, filename) THEN 3
    ELSE 0

\* _find_matching_document: the first required name whose normal form is that of
\* the uploaded filename, as a sequence of one name; <<>> is None
find_matching_document(uploaded_filename, required_document_names) ==
    LET hits == {n \in 1..Len(required_document_names) :
                    normalize_filename(uploaded_filename)
                        = normalize_filename(required_document_names[n])}
    IN  IF hits = {} THEN <<>>
        ELSE <<required_document_names[CHOOSE n \in hits : \A m \in hits : n <= m]>>

-----------------------------------------------------------------------------
(* The process identifier. *)

\* the keys of process_scores, in the order the dict is written
ProcessNames == <<"Company Incorporation", "Business Licensing",
                  "Employment Contracts", "Commercial Agreements">>

\* a regulatory filing raises the score of Business Licensing
AnchorProcess_regulatory_filing(doc_type) ==
    IF doc_type \in {"Articles of Association", "Memorandum of Association"}
    THEN "Company Incorporation"
    ELSE IF doc_type \in {"License Application Form", "Business Plan",
                          "Regulatory Filing"}
    THEN "Business Licensing"
    ELSE IF doc_type \in {"Employment Contract", "Job Description"}
    THEN "Employment Contracts"
    ELSE IF doc_type \in {"Commercial Agreement", "Due Diligence Report"}
    THEN "Commercial Agreements"
    ELSE "no process"

\* the process whose score a document type raises by 3 (the if/elif chain)
AnchorProcess(doc_type) ==
    IF doc_type \in {"Articles of Association", "Memorandum of Association"}
    THEN "Company Incorporation"
    ELSE IF doc_type \in {"License Application Form", "Business Plan"}
    THEN "Business Licensing"
    ELSE IF doc_type \in {"Employment Contract", "Job Description"}
    THEN "Employment Contracts"
    ELSE IF doc_type \in {"Commercial Agreement", "Due Diligence Report"}
    THEN "Commercial Agreements"
    ELSE "no process"

\* a Board Resolution raises every score but that of the first key
process_scores_first_key_skipped(document_types) ==
    [p \in Range(ProcessNames) |->
        3 * Cardinality({i \in 1..Len(document_types) :
                            AnchorProcess(document_types[i]) = p})
        + (IF p = ProcessNames[1] THEN 0
           ELSE Cardinality({i \in 1..Len(document_types) :
                                document_types[i] = "Board Resolution"}))]

\* process_scores after the loop over document_types
process_scores(document_types) ==
    [p \in Range(ProcessNames) |->
        3 * Cardinality({i \in 1..Len(document_types) :
                            AnchorProcess(document_types[i]) = p})
        + Cardinality({i \in 1..Len(document_types) :
                            document_types[i] = "Board Resolution"})]

\* no process when no document type is recognized
identify_process_type_none_if_zero(documents) ==
    LET document_types == [i \in 1..Len(documents) |->
                              Get(documents[i], "document_type", "")]
        sc == process_scores(document_types)
        best == CHOOSE i \in 1..Len(ProcessNames) :
                    /\ \A j \in 1..Len(ProcessNames) :
                           sc[ProcessNames[j]] <= sc[ProcessNames[i]]
                    /\ \A j \in 1..(i - 1) :
                           sc[ProcessNames[j]] < sc[ProcessNames[i]]
    IN  IF sc[ProcessNames[best]] = 0 THEN "Unknown" ELSE ProcessNames[best]

\* the last key of greatest score
identify_process_type_last_max(documents) ==
    LET document_types == [i \in 1..Len(documents) |->
                              Get(documents[i], "document_type", "")]
        sc == process_scores(document_types)
        best == CHOOSE i \in 1..Len(ProcessNames) :
                    /\ \A j \in 1..Len(ProcessNames) :
                           sc[ProcessNames[j]] <= sc[ProcessNames[i]]
                    /\ \A j \in (i + 1)..Len(ProcessNames) :
                           sc[ProcessNames[j]] < sc[ProcessNames[i]]
    IN  ProcessNames[best]

\* max(process_scores, key=process_scores.get): the first key of greatest score
identify_process_type(documents) ==
    LET document_types == [i \in 1..Len(documents) |->
                              Get(documents[i], "document_type", "")]
        sc == process_scores(document_types)
        best == CHOOSE i \in 1..Len(ProcessNames) :
                    /\ \A j \in 1..Len(ProcessNames) :
                           sc[ProcessNames[j]] <= sc[ProcessNames[i]]
                    /\ \A j \in 1..(i - 1) :
                           sc[ProcessNames[j]] < sc[ProcessNames[i]]
    IN  ProcessNames[best]

-----------------------------------------------------------------------------
(* The document loader, and the documents that are uploaded. *)

\* the text DocumentProcessor.extract_text returns for a path; it raises for a
\* path that is not here
Files ==
    ("/up/contract.docx" :> <<"E","M","P","L","O","Y","M","E","N","T"," ","C","O","N","T","R","A","C","T","\n","T","h","i","s"," ","E","m","p","l","o","y","m","e","n","t"," ","A","g","r","e","e","m","e","n","t"," ","i","s"," ","m","a","d","e"," ","i","n"," ","A","D","G","M">>)  \* 'EMPLOYMENT CONTRACT\\nThis Employment Agreement is made in ADGM'
    @@ ("/up/job.docx" :> <<"J","o","b"," ","D","e","s","c","r","i","p","t","i","o","n","\n","R","o","l","e"," ","a","n","d"," ","d","u","t","i","e","s">>)  \* 'Job Description\\nRole and duties'
    @@ ("/up/resolution.docx" :> <<"B","o","a","r","d"," ","R","e","s","o","l","u","t","i","o","n"," ","o","f"," ","t","h","e"," ","d","i","r","e","c","t","o","r","s">>)  \* 'Board Resolution of the directors'
    @@ ("/up/pack.docx" :> <<"E","m","p","l","o","y","m","e","n","t"," ","c","o","n","t","r","a","c","t",","," ","j","o","b"," ","d","e","s","c","r","i","p","t","i","o","n"," ","a","n","d"," ","b","o","a","r","d"," ","r","e","s","o","l","u","t","i","o","n">>)  \* 'Employment contract, job description and board resolution'
    @@ ("/up/duties.docx" :> <<"D","u","t","i","e","s"," ","o","f"," ","t","h","e"," ","p","o","s","t">>)  \* 'Duties of the post'
    @@ ("/up/articles.docx" :> <<"A","r","t","i","c","l","e","s"," ","o","f"," ","A","s","s","o","c","i","a","t","i","o","n"," ","o","f"," ","t","h","e"," ","c","o","m","p","a","n","y">>)  \* 'Articles of Association of the company'
    @@ ("/up/license.docx" :> <<"L","i","c","e","n","s","e"," ","A","p","p","l","i","c","a","t","i","o","n"," ","F","o","r","m","\n","B","u","s","i","n","e","s","s"," ","P","l","a","n">>)  \* 'License Application Form\\nBusiness Plan'

\* extract_docx_text: the text of the file, or '' when the loader raises
extract_docx_text(file_path) ==
    IF file_path \in DOMAIN Files THEN Files[file_path] ELSE <<>>

\* whether the exception of the loader leaves extract_docx_text: the except
\* clause takes every Exception
extract_docx_text_raises_uncaught(file_path) == file_path \notin DOMAIN Files
extract_docx_text_raises(file_path) == FALSE

\* the calls of DocumentProcessor.extract_text that one extract_docx_text makes
loader_calls_repeated(file_path) ==
    <<[fn |-> "extract_text", arg |-> file_path],
      [fn |-> "extract_text", arg |-> file_path]>>
loader_calls(file_path) == <<[fn |-> "extract_text", arg |-> file_path]>>

Upload(name, path, type) ==
    [file_name |-> name, file_path |-> path, document_type |-> type]

DocPool == {
    Upload(<<"c","o","n","t","r","a","c","t",".","d","o","c","x">>, "/up/contract.docx", "Employment Contract"),  \* 'contract.docx'
    Upload(<<"j","o","b",".","d","o","c","x">>, "/up/job.docx", "Job Description"),  \* 'job.docx'
    Upload(<<"r","e","s","o","l","u","t","i","o","n",".","d","o","c","x">>, "/up/resolution.docx", "Board Resolution"),  \* 'resolution.docx'
    \* its text has keywords of three requirements
    Upload(<<"p","a","c","k",".","d","o","c","x">>, "/up/pack.docx", "Employment Contract"),  \* 'pack.docx'
    \* matched by its normalized file name only
    Upload(<<" ","J","o","b","_","D","e","s","c","r","i","p","t","i","o","n",".","D","O","C","X">>, "/up/duties.docx", "Job Description"),  \* ' Job_Description.DOCX'
    \* the loader raises; matched by its file name
    Upload(<<"b","o","a","r","d","-","r","e","s","o","l","u","t","i","o","n",".","d","o","c","x">>, "/up/corrupt.docx", "Employment Contract"),  \* 'board-resolution.docx'
    \* no file name
    [file_path |-> "/up/job.docx", document_type |-> "Job Description"],
    \* no file path
    [file_name |-> <<"j","o","b",".","d","o","c","x">>, document_type |-> "Job Description"],  \* 'job.docx'
    \* no document type
    [file_name |-> <<"n","o","t","e","s",".","d","o","c","x">>, file_path |-> "/up/duties.docx"],  \* 'notes.docx'
    Upload(<<"a","r","t","i","c","l","e","s",".","d","o","c","x">>, "/up/articles.docx", "Articles of Association") }  \* 'articles.docx'

-----------------------------------------------------------------------------
(* verify_checklist as a state machine: the entry, one step for each uploaded *)
(* document, the return.                                                     *)

ChecklistResult(ptype, uploaded, required, missing, completeness, complete) ==
    [process_type |-> ptype,
     documents_uploaded |-> uploaded,
     required_documents |-> required,
     missing_documents |-> missing,
     completeness_percentage |-> completeness,
     is_complete |-> complete]

\* the result for no uploaded document
EmptyResult_complete == ChecklistResult("Unknown", 0, 0, <<>>, 0, TRUE)
EmptyResult == ChecklistResult("Unknown", 0, 0, <<>>, 0, FALSE)

\* [doc.document_name for doc in required_docs if doc.is_mandatory]
mandatory_docs_unfiltered(required_docs) ==
    [k \in 1..Len(required_docs) |-> required_docs[k].document_name]
mandatory_docs(required_docs) ==
    LET m == SelectSeq(required_docs, LAMBDA d : d.is_mandatory)
    IN  [k \in 1..Len(m) |-> m[k].document_name]

\* the first loop over required_docs: the first mandatory requirement that is
\* not found yet and that matches is added, and the loop breaks
FirstMatch_replacing(found, text, filename, required_docs) ==
    LET hits == {k \in 1..Len(required_docs) :
                    /\ required_docs[k].is_mandatory
                    /\ required_docs[k].document_name \notin found
                    /\ match_document_type(text, filename, required_docs[k])}
    IN  IF hits = {} THEN found
        ELSE {required_docs[CHOOSE k \in hits : \A j \in hits : k <= j].document_name}
FirstMatch_last(found, text, filename, required_docs) ==
    LET hits == {k \in 1..Len(required_docs) :
                    /\ required_docs[k].is_mandatory
                    /\ required_docs[k].document_name \notin found
                    /\ match_document_type(text, filename, required_docs[k])}
    IN  IF hits = {} THEN found
        ELSE found \cup
             {required_docs[CHOOSE k \in hits : \A j \in hits : k >= j].document_name}
FirstMatch(found, text, filename, required_docs) ==
    LET hits == {k \in 1..Len(required_docs) :
                    /\ required_docs[k].is_mandatory
                    /\ required_docs[k].document_name \notin found
                    /\ match_document_type(text, filename, required_docs[k])}
    IN  IF hits = {} THEN found
        ELSE found \cup
             {required_docs[CHOOSE k \in hits : \A j \in hits : k <= j].document_name}

\* the filename fallback: when no mandatory requirement matches the document
FilenameFallback(found, text, filename, required_docs) ==
    IF \E k \in 1..Len(required_docs) :
           /\ required_docs[k].is_mandatory
           /\ match_document_type(text, filename, required_docs[k])
    THEN found
    ELSE LET matching_doc ==
                 find_matching_document(filename, mandatory_docs(required_docs))
         IN  IF /\ matching_doc # <<>>
                /\ matching_doc[1] # <<>>
                /\ matching_doc[1] \notin found
             THEN found \cup {matching_doc[1]}
             ELSE found

\* the result after the loop
FinalResult_complete_if_any(ptype, documents, found) ==
    LET mandatory == mandatory_docs(catalog.process_checklists[ptype])
        missing_docs == SelectSeq(mandatory, LAMBDA d : d \notin found)
    IN  ChecklistResult(ptype, Len(documents), Len(mandatory), missing_docs,
                        IF Len(mandatory) > 0
                        THEN round2([num |-> Cardinality(found) * 100,
                                     den |-> Len(mandatory)])
                        ELSE 0,
                        found # {})
FinalResult_missing_reversed(ptype, documents, found) ==
    LET mandatory == mandatory_docs(catalog.process_checklists[ptype])
        kept == SelectSeq(mandatory, LAMBDA d : d \notin found)
        missing_docs == [m \in 1..Len(kept) |-> kept[Len(kept) + 1 - m]]
    IN  ChecklistResult(ptype, Len(documents), Len(mandatory), missing_docs,
                        IF Len(mandatory) > 0
                        THEN round2([num |-> Cardinality(found) * 100,
                                     den |-> Len(mandatory)])
                        ELSE 0,
                        Len(missing_docs) = 0)
FinalResult(ptype, documents, found) ==
    LET mandatory == mandatory_docs(catalog.process_checklists[ptype])
        missing_docs == SelectSeq(mandatory, LAMBDA d : d \notin found)
        total_mandatory == Len(mandatory)
        uploaded_mandatory == Cardinality(found)
    IN  ChecklistResult(ptype, Len(documents), total_mandatory, missing_docs,
                        IF total_mandatory > 0
                        THEN round2([num |-> uploaded_mandatory * 100,
                                     den |-> total_mandatory])
                        ELSE 0,
                        Len(missing_docs) = 0)

InitChecklist ==
    /\ InstanceIdle
    /\ pc = "verify_checklist"
    /\ uploaded_documents \in SeqsUpTo(DocPool, MaxDocs)
    /\ process_type = None
    /\ doc_index = 0
    /\ found_documents = {}
    /\ result = None
    /\ calls = <<>>
    /\ document_type = None
    /\ content = None
    /\ structure = None
    /\ report = None
    /\ sev_counts = None
    /\ scores = None
    /\ CallIdle

\* if not uploaded_documents: return the empty result
verify_empty ==
    /\ pc = "verify_checklist"
    /\ uploaded_documents = <<>>
    /\ result' = EmptyResult
    /\ pc' = "returned"
    /\ UNCHANGED <<uploaded_documents, process_type, doc_index, found_documents,
                   calls, complianceVars, scoreVars, callVars, pipelineVars, instanceVars>>

\* the process type is identified; an unknown one returns at once
verify_identify ==
    /\ pc = "verify_checklist"
    /\ uploaded_documents # <<>>
    /\ LET p == identify_process_type(uploaded_documents)
       IN  /\ process_type' = p
           /\ calls' = Append(calls, [fn |-> "identify_process_type", arg |-> ""])
           /\ IF p \notin DOMAIN catalog.process_checklists
              THEN /\ result' = ChecklistResult("Unknown Process",
                                    Len(uploaded_documents), 0, <<>>, 0, FALSE)
                   /\ pc' = "returned"
                   /\ UNCHANGED <<doc_index, found_documents>>
              ELSE /\ found_documents' = {}
                   /\ doc_index' = 1
                   /\ pc' = "for_uploaded_doc"
                   /\ UNCHANGED result
    /\ UNCHANGED <<uploaded_documents, complianceVars, scoreVars, callVars, pipelineVars, instanceVars>>

\* an uploaded document without a file name or a file path: continue
skip_document ==
    /\ pc = "for_uploaded_doc"
    /\ doc_index <= Len(uploaded_documents)
    /\ LET uploaded_doc == uploaded_documents[doc_index]
       IN  \/ Get(uploaded_doc, "file_name", <<>>) = <<>>
           \/ Get(uploaded_doc, "file_path", "") = ""
    /\ doc_index' = doc_index + 1
    /\ UNCHANGED <<pc, uploaded_documents, process_type, found_documents, result,
                   calls, complianceVars, scoreVars, callVars, pipelineVars, instanceVars>>

\* one iteration of the loop over the uploaded documents
match_document ==
    /\ pc = "for_uploaded_doc"
    /\ doc_index <= Len(uploaded_documents)
    /\ LET uploaded_doc == uploaded_documents[doc_index]
           uploaded_filename == Get(uploaded_doc, "file_name", <<>>)
           file_path == Get(uploaded_doc, "file_path", "")
           text_content == extract_docx_text(file_path)
           required_docs == catalog.process_checklists[process_type]
       IN  /\ uploaded_filename # <<>>
           /\ file_path # ""
           /\ calls' = calls \o loader_calls(file_path)
           /\ IF extract_docx_text_raises(file_path)
              THEN /\ pc' = "raised"
                   /\ UNCHANGED <<found_documents, doc_index>>
              ELSE /\ found_documents' =
                          FilenameFallback(
                              FirstMatch(found_documents, text_content,
                                         uploaded_filename, required_docs),
                              text_content, uploaded_filename, required_docs)
                   /\ doc_index' = doc_index + 1
                   /\ pc' = pc
    /\ UNCHANGED <<uploaded_documents, process_type, result,
                   complianceVars, scoreVars, callVars, pipelineVars, instanceVars>>

\* after the loop: the missing documents, the completeness, the result
verify_return ==
    /\ pc = "for_uploaded_doc"
    /\ doc_index > Len(uploaded_documents)
    /\ result' = FinalResult(process_type, uploaded_documents, found_documents)
    /\ pc' = "returned"
    /\ UNCHANGED <<uploaded_documents, process_type, doc_index, found_documents,
                   calls, complianceVars, scoreVars, callVars, pipelineVars, instanceVars>>

NextChecklist ==
    \/ verify_empty
    \/ verify_identify
    \/ skip_document
    \/ match_document
    \/ verify_return

SpecChecklist == InitChecklist /\ [][NextChecklist]_vars

-----------------------------------------------------------------------------
(* match_document_type applied to a text, a filename and a requirement. *)

\* no check_compliance call and no scoring is running
ComplianceIdle ==
    /\ document_type = None
    /\ content = None
    /\ structure = None
    /\ report = None
    /\ sev_counts = None
    /\ scores = None

MatchTexts == {
    <<>>,
    <<"E","M","P","L","O","Y","M","E","N","T"," ","C","O","N","T","R","A","C","T","\n","T","h","i","s"," ","E","m","p","l","o","y","m","e","n","t"," ","A","g","r","e","e","m","e","n","t"," ","i","s"," ","m","a","d","e"," ","i","n"," ","A","D","G","M">>,  \* 'EMPLOYMENT CONTRACT\\nThis Employment Agreement is made in ADGM'
    <<"M","i","n","u","t","e","s"," ","o","f"," ","t","h","e"," ","B","o","a","r","d"," ","M","e","e","t","i","n","g">>,  \* 'Minutes of the Board Meeting'
    <<"D","u","t","i","e","s"," ","o","f"," ","t","h","e"," ","p","o","s","t">> }  \* 'Duties of the post'

MatchFilenames == {
    <<"s","c","a","n","0","0","1",".","p","d","f">>,  \* 'scan001.pdf'
    <<"B","o","a","r","d","_","R","e","s","o","l","u","t","i","o","n",".","D","O","C","X">>,  \* 'Board_Resolution.DOCX'
    <<"e","m","p","l","o","y","m","e","n","t","-","c","o","n","t","r","a","c","t",".","d","o","c","x">>,  \* 'employment-contract.docx'
    <<"m","y"," ","B","O","A","R","D"," ","M","E","E","T","I","N","G"," ","n","o","t","e","s",".","p","d","f">>,  \* 'my BOARD MEETING notes.pdf'
    <<"J","o","b"," "," ","D","e","s","c","r","i","p","t","i","o","n"," ",".","d","o","c">> }  \* 'Job  Description .doc'

\* every requirement of the catalog
Requirements ==
    UNION {Range(process_checklists[p]) : p \in DOMAIN process_checklists}

InitMatcher ==
    /\ InstanceIdle
    /\ pc = "match_document_type"
    /\ args \in [text : MatchTexts, filename : MatchFilenames,
                  required_doc : Requirements]
    /\ ret = None
    /\ PipelineIdle
    /\ ComplianceIdle
    /\ ChecklistIdle

call_match_document_type ==
    /\ pc = "match_document_type"
    /\ ret' = [value |-> match_document_type(args.text, args.filename,
                                             args.required_doc),
               step |-> match_step(args.text, args.filename, args.required_doc)]
    /\ pc' = "matched"
    /\ UNCHANGED <<args, complianceVars, scoreVars, checklistVars, pipelineVars, instanceVars>>

NextMatcher == call_match_document_type

SpecMatcher == InitMatcher /\ [][NextMatcher]_vars

-----------------------------------------------------------------------------
(* _normalize_filename applied to a filename, and to its own result. *)

\* the parts filenames are made of: letters, separators, white space, extensions
NameParts == {<<"a">>, <<"B">>, <<"x">>, <<" ">>, <<"\t">>, <<"_">>, <<"-">>, <<".">>,  \* 'a', 'B', 'x', ' ', '_', '-', '.'
              <<".","p","d","f">>, <<".","D","O","C","X">>, <<".","d","o","c">>}  \* '.pdf', '.DOCX', '.doc'

Filenames ==
    {<<"B","o","a","r","d","_","R","e","s","o","l","u","t","i","o","n",".","D","O","C","X">>, <<"b","o","a","r","d","-","r","e","s","o","l","u","t","i","o","n",".","d","o","c","x">>, <<"a",".","p","d","f",".","d","o","c","x">>}  \* 'Board_Resolution.DOCX', 'board-resolution.docx', 'a.pdf.docx'
    \cup {Flatten(parts) : parts \in SeqsUpTo(NameParts, MaxParts)}

InitNormalize ==
    /\ InstanceIdle
    /\ pc = "normalize_filename"
    /\ args \in Filenames
    /\ ret = None
    /\ PipelineIdle
    /\ ComplianceIdle
    /\ ChecklistIdle

call_normalize_filename ==
    /\ pc = "normalize_filename"
    /\ LET once == normalize_filename(args)
       IN  ret' = [once |-> once, twice |-> normalize_filename(once)]
    /\ pc' = "normalized"
    /\ UNCHANGED <<args, complianceVars, scoreVars, checklistVars, pipelineVars, instanceVars>>

NextNormalize == call_normalize_filename

SpecNormalize == InitNormalize /\ [][NextNormalize]_vars

-----------------------------------------------------------------------------
(* identify_process_type applied to a list of documents. *)

\* documents of the eight types the if/elif chain names, of the shared type, of
\* a type it does not name, and a document without the document_type key
ListedDocuments ==
    {[document_type |-> t] :
        t \in {"Articles of Association", "Memorandum of Association",
               "License Application Form", "Business Plan",
               "Employment Contract", "Job Description",
               "Commercial Agreement", "Due Diligence Report",
               "Board Resolution", "Unknown Document Type"}}
    \cup {[file_name |-> <<"n","o","t","e","s",".","d","o","c","x">>]}  \* 'notes.docx'

InitIdentify ==
    /\ InstanceIdle
    /\ pc = "identify_process_type"
    /\ args \in SeqsUpTo(ListedDocuments, MaxListed)
    /\ ret = None
    /\ PipelineIdle
    /\ ComplianceIdle
    /\ ChecklistIdle

call_identify_process_type ==
    /\ pc = "identify_process_type"
    /\ ret' = identify_process_type(args)
    /\ pc' = "identified"
    /\ UNCHANGED <<args, complianceVars, scoreVars, checklistVars, pipelineVars, instanceVars>>

NextIdentify == call_identify_process_type

SpecIdentify == InitIdentify /\ [][NextIdentify]_vars

-----------------------------------------------------------------------------
(* The document processor: DocumentProcessor.process_document.  A file of   *)
(* the batch is its path, the key of Files, and the last component of the   *)
(* path, its file name.  The paragraphs of a readable file are the lines of *)
(* its text: non-empty paragraphs of a style that is no heading style, and  *)
(* no table.                                                                 *)

\* os.path.splitext(file_path)[1]: from the last dot of the file name on, when
\* a character other than a dot precedes that dot
splitext_ext(name) ==
    LET dots == {i \in 1..Len(name) : name[i] = "."}
    IN  IF dots = {} THEN <<>>
        ELSE LET last == CHOOSE i \in dots : \A j \in dots : j <= i
             IN  IF \A i \in 1..(last - 1) : name[i] = "." THEN <<>>
                 ELSE SubSeq(name, last, Len(name))

\* os.path.splitext(file_name)[0]
splitext_root(name) == SubSeq(name, 1, Len(name) - Len(splitext_ext(name)))

supported_extensions == <<<<".","d","o","c","x">>>>  \* '.docx'

\* the extension is compared as written
can_process_case_sensitive(name) == splitext_ext(name) \in Range(supported_extensions)
can_process(name) == lower(splitext_ext(name)) \in Range(supported_extensions)

\* str.split('\n')
RECURSIVE SplitLines(_)
SplitLines(s) ==
    LET breaks == {i \in 1..Len(s) : s[i] = "\n"}
    IN  IF breaks = {} THEN <<s>>
        ELSE LET first == CHOOSE i \in breaks : \A j \in breaks : i <= j
             IN  <<SubSeq(s, 1, first - 1)>> \o SplitLines(SubSeq(s, first + 1, Len(s)))

\* doc.paragraphs of the file at a path
paragraphs_of(file_path) ==
    IF Files[file_path] = <<>> THEN <<>> ELSE SplitLines(Files[file_path])

\* str.isupper: some cased character, and no lower-case one
isupper(text) ==
    /\ \E i \in 1..Len(text) : text[i] \in Range(UpperCase)
    /\ \A i \in 1..Len(text) : text[i] \notin Range(LowerCase)

\* the heading heuristic of extract_structure, for a paragraph of no heading style
is_heading(text) ==
    \/ (Len(text) < 100 /\ isupper(text))
    \/ (EndsWith(text, <<":">>) /\ Len(text) < 50)

\* the structure after the first n paragraphs
RECURSIVE structure_after(_, _)
structure_after(paragraphs, n) ==
    IF n = 0
    THEN [title |-> IF paragraphs = <<>> THEN <<>> ELSE Strip(paragraphs[1]),
          sections |-> <<>>, tables |-> <<>>, paragraphs |-> <<>>]
    ELSE LET st == structure_after(paragraphs, n - 1)
             text == Strip(paragraphs[n])
         IN  IF text = <<>> THEN st
             ELSE IF is_heading(text)
             THEN [st EXCEPT !.sections = Append(@, [title |-> text, content |-> <<>>])]
             ELSE IF st.sections # <<>>
             THEN [st EXCEPT !.sections[Len(st.sections)].content = Append(@, text)]
             ELSE [st EXCEPT !.paragraphs = Append(@, text)]

extract_structure(file_path) ==
    structure_after(paragraphs_of(file_path), Len(paragraphs_of(file_path)))

\* any(keyword in content_lower for keyword in keywords)
AnyIn(keywords, content_lower) ==
    \E k \in 1..Len(keywords) : Contains(content_lower, keywords[k])

identify_document_type(text, struct) ==
    LET content_lower == lower(text)
    IN  IF AnyIn(<<<<"a","r","t","i","c","l","e","s"," ","o","f"," ","a","s","s","o","c","i","a","t","i","o","n">>, <<"m","e","m","o","r","a","n","d","u","m"," ","o","f"," ","a","s","s","o","c","i","a","t","i","o","n">>>>,  \* 'articles of association', 'memorandum of association'
                 content_lower)
        THEN "Articles of Association"
        ELSE IF /\ Contains(content_lower, <<"m","e","m","o","r","a","n","d","u","m">>)  \* 'memorandum'
                /\ Contains(content_lower, <<"a","s","s","o","c","i","a","t","i","o","n">>)  \* 'association'
        THEN "Memorandum of Association"
        ELSE IF Contains(content_lower, <<"b","o","a","r","d"," ","r","e","s","o","l","u","t","i","o","n">>)  \* 'board resolution'
        THEN "Board Resolution"
        ELSE IF Contains(content_lower, <<"s","h","a","r","e","h","o","l","d","e","r"," ","r","e","s","o","l","u","t","i","o","n">>)  \* 'shareholder resolution'
        THEN "Shareholder Resolution"
        ELSE IF Contains(content_lower, <<"i","n","c","o","r","p","o","r","a","t","i","o","n"," ","a","p","p","l","i","c","a","t","i","o","n">>)  \* 'incorporation application'
        THEN "Incorporation Application"
        ELSE IF Contains(content_lower, <<"u","b","o"," ","d","e","c","l","a","r","a","t","i","o","n">>)  \* 'ubo declaration'
        THEN "UBO Declaration"
        ELSE IF Contains(content_lower, <<"r","e","g","i","s","t","e","r"," ","o","f"," ","m","e","m","b","e","r","s">>)  \* 'register of members'
        THEN "Register of Members and Directors"
        ELSE IF Contains(content_lower, <<"c","h","a","n","g","e"," ","o","f"," ","r","e","g","i","s","t","e","r","e","d"," ","a","d","d","r","e","s","s">>)  \* 'change of registered address'
        THEN "Change of Registered Address Notice"
        ELSE IF AnyIn(<<<<"l","i","c","e","n","s","e">>, <<"l","i","c","e","n","s","i","n","g">>, <<"r","e","g","u","l","a","t","o","r","y">>>>, content_lower)  \* 'license', 'licensing', 'regulatory'
        THEN "Regulatory Filing"
        ELSE IF AnyIn(<<<<"e","m","p","l","o","y","m","e","n","t">>, <<"h","r">>, <<"c","o","n","t","r","a","c","t">>>>, content_lower)  \* 'employment', 'hr', 'contract'
        THEN "Employment Contract"
        ELSE IF AnyIn(<<<<"c","o","m","m","e","r","c","i","a","l">>, <<"a","g","r","e","e","m","e","n","t">>, <<"p","a","r","t","n","e","r","s","h","i","p">>>>, content_lower)  \* 'commercial', 'agreement', 'partnership'
        THEN "Commercial Agreement"
        ELSE IF AnyIn(<<<<"c","o","m","p","l","i","a","n","c","e">>, <<"r","i","s","k">>, <<"p","o","l","i","c","y">>>>, content_lower)  \* 'compliance', 'risk', 'policy'
        THEN "Compliance Policy"
        ELSE "Unknown Document Type"

\* len(text.split())
word_count(text) ==
    Cardinality({i \in 1..Len(text) :
                    /\ ~IsSpace(text[i])
                    /\ (i = 1 \/ IsSpace(text[i - 1]))})

\* process_document raises: for an unsupported file type, or when the loader
\* cannot read the file
process_document_raises(file) ==
    \/ ~can_process(file.file_name)
    \/ file.file_path \notin DOMAIN Files

\* str(e) of the exception process_document raises; the text after the colon is
\* that of the exception of the docx library
process_document_error(file) ==
    IF ~can_process(file.file_name)
    THEN <<"U","n","s","u","p","p","o","r","t","e","d"," ","f","i","l","e"," ","t","y","p","e","."," ","S","u","p","p","o","r","t","e","d",":"," ","[","'",".","d","o","c","x","'","]">>  \* 'Unsupported file type. Supported: ['.docx']'
    ELSE <<"E","r","r","o","r"," ","p","r","o","c","e","s","s","i","n","g"," ","d","o","c","u","m","e","n","t",":"," ","P","a","c","k","a","g","e"," ","n","o","t"," ","f","o","u","n","d">>  \* 'Error processing document: Package not found'

\* the doc_info of a file that process_document does not raise for
process_document(file) ==
    LET text_content == Files[file.file_path]
        struct == extract_structure(file.file_path)
    IN  [file_path |-> file.file_path,
         file_name |-> file.file_name,
         document_type |-> identify_document_type(text_content, struct),
         text_content |-> text_content,
         structure |-> struct,
         word_count |-> word_count(text_content),
         paragraph_count |-> Len(struct.paragraphs),
         section_count |-> Len(struct.sections),
         table_count |-> Len(struct.tables)]

-----------------------------------------------------------------------------
(* verify_checklist and generate_user_message as functions of their argument. *)

\* found_documents after the loop has run for the first n uploaded documents
RECURSIVE found_after(_, _, _)
found_after(documents, n, ptype) ==
    IF n = 0 THEN {}
    ELSE LET found == found_after(documents, n - 1, ptype)
             uploaded_filename == Get(documents[n], "file_name", <<>>)
             file_path == Get(documents[n], "file_path", "")
             text_content == extract_docx_text(file_path)
             required_docs == catalog.process_checklists[ptype]
         IN  IF uploaded_filename = <<>> \/ file_path = "" THEN found
             ELSE FilenameFallback(
                      FirstMatch(found, text_content, uploaded_filename,
                                 required_docs),
                      text_content, uploaded_filename, required_docs)

verify_checklist(documents) ==
    IF documents = <<>> THEN EmptyResult
    ELSE LET ptype == identify_process_type(documents)
         IN  IF ptype \notin DOMAIN catalog.process_checklists
             THEN ChecklistResult("Unknown Process", Len(documents), 0, <<>>, 0,
                                  FALSE)
             ELSE FinalResult(ptype, documents,
                              found_after(documents, Len(documents), ptype))

\* str(n) of an int n >= 0
RECURSIVE Decimal(_)
Decimal(n) ==
    LET digit == <<<<"0","1","2","3","4","5","6","7","8","9">>[(n % 10) + 1]>>  \* '0123456789'
    IN  IF n < 10 THEN digit ELSE Decimal(n \div 10) \o digit

get_process_description(ptype) ==
    IF ptype = "Company Incorporation"
    THEN <<"Y","o","u"," ","a","r","e"," ","a","t","t","e","m","p","t","i","n","g"," ","t","o"," ","i","n","c","o","r","p","o","r","a","t","e"," ","a"," ","c","o","m","p","a","n","y"," ","i","n"," ","A","D","G","M">>  \* 'You are attempting to incorporate a company in ADGM'
    ELSE IF ptype = "Business Licensing"
    THEN <<"Y","o","u"," ","a","r","e"," ","a","p","p","l","y","i","n","g"," ","f","o","r"," ","a"," ","b","u","s","i","n","e","s","s"," ","l","i","c","e","n","s","e"," ","i","n"," ","A","D","G","M">>  \* 'You are applying for a business license in ADGM'
    ELSE IF ptype = "Employment Contracts"
    THEN <<"Y","o","u"," ","a","r","e"," ","s","e","t","t","i","n","g"," ","u","p"," ","e","m","p","l","o","y","m","e","n","t"," ","c","o","n","t","r","a","c","t","s"," ","f","o","r"," ","A","D","G","M"," ","o","p","e","r","a","t","i","o","n","s">>  \* 'You are setting up employment contracts for ADGM operations'
    ELSE IF ptype = "Commercial Agreements"
    THEN <<"Y","o","u"," ","a","r","e"," ","e","s","t","a","b","l","i","s","h","i","n","g"," ","c","o","m","m","e","r","c","i","a","l"," ","a","g","r","e","e","m","e","n","t","s"," ","f","o","r"," ","A","D","G","M"," ","b","u","s","i","n","e","s","s">>  \* 'You are establishing commercial agreements for ADGM business'
    ELSE <<"U","n","k","n","o","w","n"," ","l","e","g","a","l"," ","p","r","o","c","e","s","s">>  \* 'Unknown legal process'

\* the missing names are listed without quotes
generate_user_message_unquoted(res) ==
    LET process_desc == get_process_description(res.process_type)
        missing_list == Join(<<","," ">>, res.missing_documents)  \* ', '
    IN  IF res.is_complete
        THEN <<"E","x","c","e","l","l","e","n","t","!"," ">> \o process_desc \o <<"."," ","Y","o","u"," ","h","a","v","e"," ","u","p","l","o","a","d","e","d"," ","a","l","l"," ">>  \* 'Excellent! ', '. You have uploaded all '
             \o Decimal(res.required_documents)
             \o <<" ","r","e","q","u","i","r","e","d"," ","d","o","c","u","m","e","n","t","s","."," ","Y","o","u","r"," ","s","u","b","m","i","s","s","i","o","n"," ","i","s"," ","c","o","m","p","l","e","t","e"," ","a","n","d"," ","r","e","a","d","y"," ","f","o","r"," ","r","e","v","i","e","w",".">>  \* ' required documents. Your submission is complete and ready for review.'
        ELSE process_desc
             \o <<"."," ","B","a","s","e","d"," ","o","n"," ","o","u","r"," ","r","e","f","e","r","e","n","c","e"," ","l","i","s","t",","," ","y","o","u"," ","h","a","v","e"," ","u","p","l","o","a","d","e","d"," ">>  \* '. Based on our reference list, you have uploaded '
             \o Decimal(res.documents_uploaded) \o <<" ","o","u","t"," ","o","f"," ">>  \* ' out of '
             \o Decimal(res.required_documents)
             \o <<" ","r","e","q","u","i","r","e","d"," ","d","o","c","u","m","e","n","t","s","."," ","T","h","e"," ","m","i","s","s","i","n","g"," ","d","o","c","u","m","e","n","t","(","s",")"," ","a","p","p","e","a","r"," ","t","o"," ","b","e",":"," ">>  \* ' required documents. The missing document(s) appear to be: '
             \o missing_list \o <<".">>  \* '.'

generate_user_message(res) ==
    LET process_desc == get_process_description(res.process_type)
        missing_list ==
            Join(<<","," ">>, [m \in 1..Len(res.missing_documents) |->  \* ', '
                            <<"'">> \o res.missing_documents[m] \o <<"'">>])
    IN  IF res.is_complete
        THEN <<"E","x","c","e","l","l","e","n","t","!"," ">> \o process_desc \o <<"."," ","Y","o","u"," ","h","a","v","e"," ","u","p","l","o","a","d","e","d"," ","a","l","l"," ">>  \* 'Excellent! ', '. You have uploaded all '
             \o Decimal(res.required_documents)
             \o <<" ","r","e","q","u","i","r","e","d"," ","d","o","c","u","m","e","n","t","s","."," ","Y","o","u","r"," ","s","u","b","m","i","s","s","i","o","n"," ","i","s"," ","c","o","m","p","l","e","t","e"," ","a","n","d"," ","r","e","a","d","y"," ","f","o","r"," ","r","e","v","i","e","w",".">>  \* ' required documents. Your submission is complete and ready for review.'
        ELSE process_desc
             \o <<"."," ","B","a","s","e","d"," ","o","n"," ","o","u","r"," ","r","e","f","e","r","e","n","c","e"," ","l","i","s","t",","," ","y","o","u"," ","h","a","v","e"," ","u","p","l","o","a","d","e","d"," ">>  \* '. Based on our reference list, you have uploaded '
             \o Decimal(res.documents_uploaded) \o <<" ","o","u","t"," ","o","f"," ">>  \* ' out of '
             \o Decimal(res.required_documents)
             \o <<" ","r","e","q","u","i","r","e","d"," ","d","o","c","u","m","e","n","t","s","."," ","T","h","e"," ","m","i","s","s","i","n","g"," ","d","o","c","u","m","e","n","t","(","s",")"," ","a","p","p","e","a","r"," ","t","o"," ","b","e",":"," ">>  \* ' required documents. The missing document(s) appear to be: '
             \o missing_list \o <<".">>  \* '.'

-----------------------------------------------------------------------------
(* generate_user_message applied to a result of verify_checklist. *)

\* the results verify_checklist returns for at most MaxDocs uploaded documents:
\* the empty result, and for every process any set of satisfied mandatory
\* requirements that is not larger than the number of documents
MessageResults ==
    {EmptyResult} \cup
    UNION {
        LET mandatory == mandatory_docs(process_checklists[p])
        IN  {ChecklistResult(p, u, Len(mandatory),
                             SelectSeq(mandatory, LAMBDA n : n \notin found),
                             round2([num |-> Cardinality(found) * 100,
                                     den |-> Len(mandatory)]),
                             found = Range(mandatory)) :
                u \in 1..MaxDocs,
                found \in {f \in SUBSET Range(mandatory) : Cardinality(f) <= MaxDocs}}
        : p \in DOMAIN process_checklists}

InitMessage ==
    /\ InstanceIdle
    /\ pc = "generate_user_message"
    /\ args \in MessageResults
    /\ ret = None
    /\ PipelineIdle
    /\ ComplianceIdle
    /\ ChecklistIdle

call_generate_user_message ==
    /\ pc = "generate_user_message"
    /\ ret' = generate_user_message(args)
    /\ pc' = "generated"
    /\ UNCHANGED <<args, complianceVars, scoreVars, checklistVars, pipelineVars, instanceVars>>

NextMessage == call_generate_user_message

SpecMessage == InitMessage /\ [][NextMessage]_vars

-----------------------------------------------------------------------------
(* process_documents as a state machine: one step for each file of the       *)
(* batch, then the return.  The Knowledge Store may raise for any file; the  *)
(* references and links it adds to an issue are left out of the issue.       *)

\* the dict check_compliance returns
compliance_result(doc_type, text, struct) ==
    ComplianceReport(check_jurisdiction_compliance(text)
                     \o check_required_clauses(doc_type, text)
                     \o check_legal_language(text)
                     \o check_formatting_compliance(struct))

\* str(e) of the exception of the Knowledge Store
enhance_error == <<"K","n","o","w","l","e","d","g","e"," ","s","t","o","r","e"," ","u","n","a","v","a","i","l","a","b","l","e">>  \* 'Knowledge store unavailable'

\* f"{os.path.basename(file_path)}: {str(e)}"
error_line(file, message) == file.file_name \o <<":"," ">> \o message  \* ': '

\* if errors: user_message += "\n\nErrors:\n" + "\n".join(errors)
with_errors_dropped(user_message, recorded) == user_message
with_errors(user_message, recorded) ==
    IF recorded # <<>>
    THEN user_message \o <<"\n","\n","E","r","r","o","r","s",":","\n">> \o Join(<<"\n">>, recorded)  \* '\\n\\nErrors:\\n'
    ELSE user_message

\* _generate_structured_output raises KeyError: a document without the key
structured_output_raises(documents) ==
    \E d \in 1..Len(documents) :
        {"compliance_score", "total_issues"} \ DOMAIN documents[d] # {}

\* the dict _generate_structured_output dumps; the text of an issue is that of
\* its type and clause
structured_output(documents, issues, checklist) ==
    [process |-> checklist.process_type,
     documents_uploaded |-> checklist.documents_uploaded,
     required_documents |-> checklist.required_documents,
     missing_documents |-> checklist.missing_documents,
     completeness_percentage |-> checklist.completeness_percentage,
     is_complete |-> checklist.is_complete,
     documents |-> [d \in 1..Len(documents) |->
         [file_name |-> documents[d].file_name,
          document_type |-> documents[d].document_type,
          compliance_score |-> documents[d].compliance_score,
          total_issues |-> documents[d].total_issues,
          word_count |-> documents[d].word_count]],
     issues_found |-> [i \in 1..Len(issues) |->
         [document |-> issues[i].document,
          document_type |-> issues[i].document_type,
          issue |-> [issue_type |-> issues[i].issue_type,
                     clause |-> issues[i].clause],
          severity |-> issues[i].severity]]]

\* _generate_commented_documents: a reviewed copy for every input file that has
\* issues and that the Annotator can open; the mark before a name is the three
\* characters U+201A, U+00FA, U+00D6 of the source
generate_commented_documents(input_files, issues) ==
    LET commented == SelectSeq(input_files, LAMBDA f :
                         /\ \E i \in 1..Len(issues) : issues[i].document = f.file_name
                         /\ f.file_path \in DOMAIN Files)
    IN  IF commented # <<>>
        THEN Join(<<"\n">>, [c \in 1..Len(commented) |->
                 <<"U+201A", "U+00FA", "U+00D6", " ">> \o splitext_root(commented[c].file_name)
                     \o <<"_","r","e","v","i","e","w","e","d",".","d","o","c","x">>])  \* '_reviewed.docx'
        ELSE <<"N","o"," ","c","o","m","m","e","n","t","e","d"," ","d","o","c","u","m","e","n","t","s"," ","g","e","n","e","r","a","t","e","d">>  \* 'No commented documents generated'

BatchFile(path, name) == [file_path |-> path, file_name |-> name]

\* readable documents, a document the loader cannot read, a file of another type
BatchFiles == {
    BatchFile("/up/contract.docx", <<"c","o","n","t","r","a","c","t",".","d","o","c","x">>),  \* 'contract.docx'
    BatchFile("/up/job.docx", <<"j","o","b",".","d","o","c","x">>),  \* 'job.docx'
    BatchFile("/up/resolution.docx", <<"r","e","s","o","l","u","t","i","o","n",".","d","o","c","x">>),  \* 'resolution.docx'
    BatchFile("/up/articles.docx", <<"a","r","t","i","c","l","e","s",".","d","o","c","x">>),  \* 'articles.docx'
    BatchFile("/up/license.docx", <<"l","i","c","e","n","s","e",".","d","o","c","x">>),  \* 'license.docx'
    BatchFile("/up/corrupt.docx", <<"c","o","r","r","u","p","t",".","d","o","c","x">>),  \* 'corrupt.docx'
    BatchFile("/up/scan.pdf", <<"s","c","a","n",".","p","d","f">>) }  \* 'scan.pdf'

InitPipeline ==
    /\ InstanceIdle
    /\ pc = "process_documents"
    /\ files \in SeqsUpTo(BatchFiles, MaxFiles)
    /\ file_index = 1
    /\ processed_documents = <<>>
    /\ all_issues = <<>>
    /\ errors = <<>>
    /\ args = None
    /\ ret = None
    /\ ComplianceIdle
    /\ ChecklistIdle

\* if not files: return "No files uploaded", "", ""
process_no_files ==
    /\ pc = "process_documents"
    /\ files = <<>>
    /\ ret' = [user_message |-> <<"N","o"," ","f","i","l","e","s"," ","u","p","l","o","a","d","e","d">>,  \* 'No files uploaded'
               structured_output |-> <<>>,
               commented_files |-> <<>>]
    /\ pc' = "returned"
    /\ UNCHANGED <<args, pipelineVars, complianceVars, scoreVars, checklistVars,
                   instanceVars>>

\* process_document raises for the file: the error is recorded
file_not_loaded ==
    /\ pc = "process_documents"
    /\ file_index <= Len(files)
    /\ process_document_raises(files[file_index])
    /\ errors' = Append(errors, error_line(files[file_index],
                                           process_document_error(files[file_index])))
    /\ file_index' = file_index + 1
    /\ UNCHANGED <<instanceVars, pc, args, ret, files, processed_documents, all_issues,
                   complianceVars, scoreVars, checklistVars>>

\* the file is loaded and checked, then enhance_compliance_analysis raises: the
\* doc_info is in processed_documents already, and the error is recorded
enhance_raises ==
    /\ pc = "process_documents"
    /\ file_index <= Len(files)
    /\ ~process_document_raises(files[file_index])
    /\ processed_documents' =
           Append(processed_documents, process_document(files[file_index]))
    /\ errors' = Append(errors, error_line(files[file_index], enhance_error))
    /\ file_index' = file_index + 1
    /\ UNCHANGED <<instanceVars, pc, args, ret, files, all_issues,
                   complianceVars, scoreVars, checklistVars>>

\* the file is loaded, checked and its issues enhanced
file_analysed ==
    /\ pc = "process_documents"
    /\ file_index <= Len(files)
    /\ ~process_document_raises(files[file_index])
    /\ LET doc_info == process_document(files[file_index])
           checked == compliance_result(doc_info.document_type,
                                        doc_info.text_content, doc_info.structure)
           enhanced_issues ==
               [i \in 1..Len(checked.issues) |->
                   checked.issues[i]
                   @@ [document |-> doc_info.file_name,
                       document_type |-> doc_info.document_type]]
       IN  /\ processed_documents' =
                  Append(processed_documents,
                         doc_info @@ [compliance_score |-> checked.compliance_score,
                                      total_issues |-> checked.total_issues])
           /\ all_issues' = all_issues \o enhanced_issues
    /\ file_index' = file_index + 1
    /\ UNCHANGED <<instanceVars, pc, args, ret, files, errors,
                   complianceVars, scoreVars, checklistVars>>

\* after the loop: the checklist, the message, the report, the reviewed copies
process_documents_return ==
    /\ pc = "process_documents"
    /\ files # <<>>
    /\ file_index > Len(files)
    /\ LET checklist_result == verify_checklist(processed_documents)
           user_message == generate_user_message(checklist_result)
       IN  IF structured_output_raises(processed_documents)
           THEN /\ ret' = [exception |-> "KeyError"]
                /\ pc' = "raised"
           ELSE /\ ret' = [user_message |-> with_errors(user_message, errors),
                           structured_output |->
                               structured_output(processed_documents, all_issues,
                                                 checklist_result),
                           commented_files |->
                               generate_commented_documents(files, all_issues)]
                /\ pc' = "returned"
    /\ UNCHANGED <<args, pipelineVars, complianceVars, scoreVars, checklistVars,
                   instanceVars>>

NextPipeline ==
    \/ process_no_files
    \/ file_not_loaded
    \/ enhance_raises
    \/ file_analysed
    \/ process_documents_return

SpecPipeline == InitPipeline /\ [][NextPipeline]_vars

-----------------------------------------------------------------------------
(* process_document applied to one file. *)

\* the names of the unit test, and names made of a root and an ending
ProcessorNames ==
    {<<"d","o","c","u","m","e","n","t",".","d","o","c","x">>, <<"c","o","n","t","r","a","c","t",".","D","O","C","X">>, <<"d","o","c","u","m","e","n","t",".","p","d","f">>, <<"d","o","c","u","m","e","n","t",".","t","x","t">>,  \* 'document.docx', 'contract.DOCX', 'document.pdf', 'document.txt'
     <<"d","o","c","u","m","e","n","t">>}  \* 'document'
    \cup {root \o ending :
             root \in {<<>>, <<".">>, <<"c","o","n","t","r","a","c","t">>, <<"m","y",".","f","i","l","e">>, <<"r","e","p","o","r","t",".","d","o","c","x">>},  \* '', '.', 'contract', 'my.file', 'report.docx'
             ending \in {<<".","d","o","c","x">>, <<".","D","O","C","X">>, <<".","D","o","c","X">>, <<".","d","o","c">>, <<".","p","d","f">>, <<".","d","o","c","x"," ">>,  \* '.docx', '.DOCX', '.DocX', '.doc', '.pdf', '.docx '
                         <<".","d","o","c","x","x">>, <<"d","o","c","x">>, <<".","d","o","c","x",".","p","d","f">>, <<".","d","o","c","x",".">>}}  \* '.docxx', 'docx', '.docx.pdf', '.docx.'

\* a path the loader reads, and a path it cannot read
ProcessorFiles ==
    {BatchFile(path, name) : path \in {"/up/contract.docx", "/up/corrupt.docx"},
                             name \in ProcessorNames}

\* the calls process_document makes to extract_text and extract_structure: none
\* for a file it cannot process, and no second one when extract_text raises
process_document_calls(file) ==
    IF ~can_process(file.file_name) THEN <<>>
    ELSE <<[fn |-> "extract_text", arg |-> file.file_path]>>
         \o (IF file.file_path \in DOMAIN Files
             THEN <<[fn |-> "extract_structure", arg |-> file.file_path]>>
             ELSE <<>>)

InitProcessor ==
    /\ InstanceIdle
    /\ pc = "process_document"
    /\ args \in ProcessorFiles
    /\ ret = None
    /\ PipelineIdle
    /\ ComplianceIdle
    /\ ChecklistIdle

call_process_document ==
    /\ pc = "process_document"
    /\ calls' = process_document_calls(args)
    /\ IF process_document_raises(args)
       THEN /\ ret' = [exception |-> IF can_process(args.file_name)
                                     THEN "Exception" ELSE "ValueError",
                       message |-> process_document_error(args)]
            /\ pc' = "raised"
       ELSE /\ ret' = process_document(args)
            /\ pc' = "returned"
    /\ UNCHANGED <<args, complianceVars, scoreVars, uploaded_documents, process_type,
                   doc_index, found_documents, result, pipelineVars, instanceVars>>

NextProcessor == call_process_document

SpecProcessor == InitProcessor /\ [][NextProcessor]_vars

-----------------------------------------------------------------------------
(* One checker and one verifier instance shared by two callers: a            *)
(* verify_checklist call that runs step by step, and, between its steps,     *)
(* calls of check_compliance, verify_checklist, identify_process_type,       *)
(* match_document_type and generate_user_message that run to their return.   *)
(* args and ret are the last of these calls and its result; first_call is    *)
(* the first of them, with its result and whether it was made again.         *)

SharedDocs == {
    Upload(<<"c","o","n","t","r","a","c","t",".","d","o","c","x">>, "/up/contract.docx", "Employment Contract"),  \* 'contract.docx'
    [file_path |-> "/up/job.docx", document_type |-> "Job Description"] }

SharedLists ==
    {<<>>, <<Upload(<<"c","o","n","t","r","a","c","t",".","d","o","c","x">>, "/up/contract.docx", "Employment Contract")>>}  \* 'contract.docx'

SharedComplianceArgs ==
    [document_type : {"Board Resolution"},
     content : {<<"D","u","b","a","i"," ","C","o","u","r","t","s">>},  \* 'Dubai Courts'
     structure : {[title |-> <<"B","o","a","r","d"," ","R","e","s","o","l","u","t","i","o","n">>]}]  \* 'Board Resolution'

SharedMatchArgs ==
    [text : {<<"B","o","a","r","d"," ","R","e","s","o","l","u","t","i","o","n"," ","o","f"," ","t","h","e"," ","d","i","r","e","c","t","o","r","s">>},  \* 'Board Resolution of the directors'
     filename : {<<"s","c","a","n","0","0","1",".","p","d","f">>},  \* 'scan001.pdf'
     required_doc : {process_checklists["Company Incorporation"][3],
                     process_checklists["Employment Contracts"][1]}]

SharedResults ==
    {EmptyResult,
     ChecklistResult("Employment Contracts", 1, 3,
                     <<<<"J","o","b"," ","D","e","s","c","r","i","p","t","i","o","n">>, <<"B","o","a","r","d"," ","R","e","s","o","l","u","t","i","o","n">>>>, 3333, FALSE)}  \* 'Job Description', 'Board Resolution'

InitInstance ==
    /\ InstanceIdle
    /\ pc = "verify_checklist"
    /\ uploaded_documents \in SeqsUpTo(SharedDocs, MaxShared)
    /\ process_type = None
    /\ doc_index = 0
    /\ found_documents = {}
    /\ result = None
    /\ calls = <<>>
    /\ args = None
    /\ ret = None
    /\ PipelineIdle
    /\ ComplianceIdle

\* a call returns r: it becomes the last call, and the first one if there was
\* none; a first call that is made again is marked
Returned(call, r) ==
    /\ args' = call
    /\ ret' = r
    /\ first_call' =
           IF first_call = <<>>
           THEN <<[call |-> call, ret |-> r, repeated |-> FALSE]>>
           ELSE IF first_call[1].call.fn = call.fn /\ first_call[1].call.arg = call.arg
           THEN <<[first_call[1] EXCEPT !.repeated = TRUE]>>
           ELSE first_call
    /\ UNCHANGED <<pc, complianceVars, scoreVars, checklistVars, pipelineVars>>

\* check_compliance that empties the required-clause list it has checked
shared_check_compliance_consuming ==
    /\ \E a \in SharedComplianceArgs :
           /\ Returned([fn |-> "check_compliance", arg |-> a],
                       compliance_result(a.document_type, a.content, a.structure))
           /\ catalog' = [catalog EXCEPT !.required_clauses =
                             [t \in DOMAIN @ |->
                                 IF t = a.document_type THEN <<>> ELSE @[t]]]

shared_check_compliance ==
    /\ \E a \in SharedComplianceArgs :
           Returned([fn |-> "check_compliance", arg |-> a],
                    compliance_result(a.document_type, a.content, a.structure))
    /\ catalog' = catalog

shared_verify_checklist ==
    /\ \E a \in SharedLists :
           Returned([fn |-> "verify_checklist", arg |-> a], verify_checklist(a))
    /\ catalog' = catalog

shared_identify_process_type ==
    /\ \E a \in SharedLists :
           Returned([fn |-> "identify_process_type", arg |-> a],
                    identify_process_type(a))
    /\ catalog' = catalog

shared_match_document_type ==
    /\ \E a \in SharedMatchArgs :
           Returned([fn |-> "match_document_type", arg |-> a],
                    match_document_type(a.text, a.filename, a.required_doc))
    /\ catalog' = catalog

shared_generate_user_message ==
    /\ \E a \in SharedResults :
           Returned([fn |-> "generate_user_message", arg |-> a],
                    generate_user_message(a))
    /\ catalog' = catalog

NextInstance ==
    \/ verify_empty
    \/ verify_identify
    \/ skip_document
    \/ match_document
    \/ verify_return
    \/ shared_check_compliance
    \/ shared_verify_checklist
    \/ shared_identify_process_type
    \/ shared_match_document_type
    \/ shared_generate_user_message

SpecInstance == InitInstance /\ [][NextInstance]_vars

-----------------------------------------------------------------------------
(* Claims about the compliance score. *)

\* C1: every report of check_compliance has 0 <= compliance_score <= 100, and
\* the score is 100 if and only if total_issues is 0.
C1_ScoreRange ==
    pc = "returned" =>
        /\ 0 <= report.compliance_score
        /\ report.compliance_score <= 10000
        /\ (report.compliance_score = 10000 <=> report.total_issues = 0)

\* a document with no issue at all, scored 100
C1_Witness ==
    /\ pc = "returned"
    /\ report.total_issues = 0
    /\ report.issues = <<>>
    /\ report.compliance_score = 10000

\* C2: is_compliant is true if and only if the compliance_score of the same
\* report (the rounded value) is at least 80.
C2_CompliantIffScore80 ==
    pc = "returned" => (report.is_compliant <=> report.compliance_score >= 8000)

\* the best-scoring report that has an issue: 66.67, and not compliant
C2_Witness ==
    /\ pc = "returned"
    /\ report.compliance_score = 6667
    /\ ~report.is_compliant

\* C3: with total = high + medium + low, the score is 100 when total = 0 and
\* otherwise max(0, 100 - 100 * (3 high + 2 medium + low) / (3 total)) rounded
\* to 2 decimals (the hundredth nearest to the exact value); all-Low reports
\* score 66.67 and all-High reports score 0.
C3_ScoreFormula ==
    pc = "returned" =>
        LET high == report.high_severity_issues
            medium == report.medium_severity_issues
            low == report.low_severity_issues
            total == high + medium + low
            s == report.compliance_score
            \* 3 * total times the exact score in hundredths
            exact == 10000 * 3 * total - 10000 * (3 * high + 2 * medium + low)
            clipped == IF exact < 0 THEN 0 ELSE exact
            diff == s * 3 * total - clipped
        IN  /\ report.total_issues = total
            /\ total = 0 => s = 10000
            /\ total > 0 => /\ 2 * diff <= 3 * total
                            /\ 2 * diff >= -(3 * total)
            /\ (total > 0 /\ low = total) => s = 6667
            /\ (total > 0 /\ high = total) => s = 0

\* a report with issues of all three severities
C3_Witness ==
    /\ pc = "returned"
    /\ report.high_severity_issues > 0
    /\ report.medium_severity_issues > 0
    /\ report.low_severity_issues > 0
    /\ report.compliance_score > 0

\* C4: for any severity counts, (0,0,0) included, one more High issue never
\* gives a greater score.
C4_OneMoreHighNeverRaises ==
    pc = "scored" => scores.one_more_high <= scores.score

\* counts without a High issue whose score strictly drops with the first one
C4_Witness ==
    /\ pc = "scored"
    /\ sev_counts.high = 0
    /\ sev_counts.low > 0
    /\ scores.one_more_high < scores.score

-----------------------------------------------------------------------------
(* Claims about verify_checklist. *)

\* the uploaded document at index i has a file name and a file path, so the
\* loop body runs for it
Processed(i) ==
    /\ Get(uploaded_documents[i], "file_name", <<>>) # <<>>
    /\ Get(uploaded_documents[i], "file_path", "") # ""

\* the document matcher accepts the uploaded document at index i for requirement
\* k of the inferred process
Accepts(i, k) ==
    match_document_type(extract_docx_text(uploaded_documents[i].file_path),
                        uploaded_documents[i].file_name,
                        process_checklists[process_type][k])

\* the indices of the mandatory requirements of the inferred process
MandatoryIndices ==
    {k \in 1..Len(process_checklists[process_type]) :
        process_checklists[process_type][k].is_mandatory}

\* C5: during one call the set of satisfied requirements only grows, and each
\* name is recorded once: at the return the satisfied and the missing names
\* together are the mandatory ones.
C5_SatisfiedOnlyGrows ==
    [][/\ found_documents \subseteq found_documents'
       /\ (pc = "for_uploaded_doc" /\ pc' = "returned") =>
              /\ Cardinality(found_documents) + Len(result'.missing_documents)
                     = result'.required_documents
              /\ \A m \in 1..Len(result'.missing_documents) :
                     result'.missing_documents[m] \notin found_documents]_vars

\* a second upload of a document that matches only the requirement the first
\* upload satisfied
C5_Witness ==
    /\ pc = "for_uploaded_doc"
    /\ doc_index = 3
    /\ uploaded_documents[1] = uploaded_documents[2]
    /\ found_documents = {<<"E","m","p","l","o","y","m","e","n","t"," ","C","o","n","t","r","a","c","t">>}  \* 'Employment Contract'

\* requirement k can be satisfied by the document at doc_index: it is mandatory,
\* not satisfied yet, and the document matcher accepts the document for it
C6_Eligible(k) ==
    /\ k \in MandatoryIndices
    /\ process_checklists[process_type][k].document_name \notin found_documents
    /\ Accepts(doc_index, k)

\* C6: processing one uploaded document adds at most one requirement, the first
\* mandatory one in catalog order that is not satisfied yet and that the matcher
\* accepts for the document; when there is such a requirement it is added.
C6_FirstMatchWins ==
    [][(pc = "for_uploaded_doc" /\ doc_index <= Len(uploaded_documents)) =>
          LET added == found_documents' \ found_documents
              reqs == process_checklists[process_type]
          IN  /\ Cardinality(added) <= 1
              /\ ~Processed(doc_index) => added = {}
              /\ Processed(doc_index) =>
                    /\ (added = {}) <=> (\A k \in 1..Len(reqs) : ~C6_Eligible(k))
                    /\ \A n \in added :
                           \E k \in 1..Len(reqs) :
                               /\ reqs[k].document_name = n
                               /\ C6_Eligible(k)
                               /\ \A j \in 1..(k - 1) : ~C6_Eligible(j)]_vars

\* the same document, which matches three requirements, uploaded twice: the
\* second upload satisfies the second requirement
C6_Witness ==
    /\ pc = "for_uploaded_doc"
    /\ doc_index = 3
    /\ uploaded_documents[1] = uploaded_documents[2]
    /\ found_documents = {<<"E","m","p","l","o","y","m","e","n","t"," ","C","o","n","t","r","a","c","t">>, <<"J","o","b"," ","D","e","s","c","r","i","p","t","i","o","n">>}  \* 'Employment Contract', 'Job Description'

\* every mandatory requirement of the inferred process has an uploaded document
\* whose extracted text holds one of its keywords
C7_AllContentMatched ==
    \A k \in MandatoryIndices :
        \E i \in 1..Len(uploaded_documents) :
            /\ Processed(i)
            /\ KeywordIn(process_checklists[process_type][k],
                         extract_docx_text(uploaded_documents[i].file_path))

\* no uploaded document is accepted by the matcher for two mandatory requirements
C7_NoDocumentMatchesTwo ==
    \A i \in 1..Len(uploaded_documents) :
        Processed(i) => Cardinality({k \in MandatoryIndices : Accepts(i, k)}) <= 1

C7_Complete ==
    /\ result.completeness_percentage = 10000
    /\ result.missing_documents = <<>>

\* C7 as stated: if the uploaded documents content-match all k mandatory
\* requirements of the inferred process, the result is 100.0 with nothing
\* missing, also when one document matches the keywords of several requirements.
C7_Original ==
    (pc = "returned" /\ uploaded_documents # <<>> /\ C7_AllContentMatched)
        => C7_Complete

\* C7, amended: if the uploaded documents content-match all k mandatory
\* requirements of the inferred process and no uploaded document is accepted by
\* the matcher for more than one mandatory requirement, the result is 100.0
\* with nothing missing, for every upload order.
C7_Amended ==
    (/\ pc = "returned"
     /\ uploaded_documents # <<>>
     /\ C7_AllContentMatched
     /\ C7_NoDocumentMatchesTwo)
        => C7_Complete

\* three documents, one for each mandatory requirement
C7_Witness ==
    /\ pc = "returned"
    /\ Len(uploaded_documents) = 3
    /\ C7_AllContentMatched
    /\ C7_NoDocumentMatchesTwo
    /\ result.required_documents = 3
    /\ C7_Complete

\* C8: for no uploaded document the result is ("Unknown", 0, 0, [], 0.0, false),
\* and neither the process identifier nor the document loader is called.
C8_EmptyInput ==
    (pc = "returned" /\ uploaded_documents = <<>>) =>
        /\ result = [process_type |-> "Unknown",
                     documents_uploaded |-> 0,
                     required_documents |-> 0,
                     missing_documents |-> <<>>,
                     completeness_percentage |-> 0,
                     is_complete |-> FALSE]
        /\ calls = <<>>

\* the call with no document has returned
C8_Witness ==
    /\ pc = "returned"
    /\ uploaded_documents = <<>>
    /\ result.process_type = "Unknown"

\* C9 as stated: in every result, is_complete iff missing_documents is empty.
C9_Original ==
    pc = "returned" => (result.is_complete <=> result.missing_documents = <<>>)

\* C9, amended: in the result for a non-empty input, is_complete iff
\* missing_documents is empty; the result for the empty input has is_complete
\* false and missing_documents empty.
C9_Amended ==
    pc = "returned" =>
        /\ uploaded_documents # <<>> =>
               (result.is_complete <=> result.missing_documents = <<>>)
        /\ uploaded_documents = <<>> =>
               (~result.is_complete /\ result.missing_documents = <<>>)

\* a complete result
C9_Witness ==
    /\ pc = "returned"
    /\ uploaded_documents # <<>>
    /\ result.is_complete
    /\ result.missing_documents = <<>>

\* C10: for a non-empty input, required_documents is the number of mandatory
\* entries of the inferred process, documents_uploaded the number of uploads,
\* and completeness_percentage is 100 * satisfied / required rounded to 2
\* decimals (0 without mandatory entries), within [0, 100].
C10_Counts ==
    (pc = "returned" /\ uploaded_documents # <<>>) =>
        LET required == Cardinality(MandatoryIndices)
            satisfied == Cardinality(found_documents)
            c == result.completeness_percentage
            diff == c * required - 10000 * satisfied
        IN  /\ result.process_type = process_type
            /\ process_type \in DOMAIN process_checklists
            /\ result.required_documents = required
            /\ result.documents_uploaded = Len(uploaded_documents)
            /\ required = 0 => c = 0
            /\ required > 0 => (2 * diff <= required /\ 2 * diff >= -required)
            /\ 0 <= c
            /\ c <= 10000

\* one of seven mandatory documents: 14.29
C10_Witness ==
    /\ pc = "returned"
    /\ result.required_documents = 7
    /\ Cardinality(found_documents) = 1
    /\ result.completeness_percentage = 1429

\* the catalog index of the requirement of the inferred process named n
CatalogIndex(n) ==
    CHOOSE k \in 1..Len(process_checklists[process_type]) :
        process_checklists[process_type][k].document_name = n

\* C11: missing_documents holds the names of the mandatory requirements that are
\* not satisfied, each once, in catalog order; no name of a non-mandatory
\* requirement is in it.
C11_MissingInCatalogOrder ==
    (pc = "returned" /\ uploaded_documents # <<>>) =>
        LET reqs == process_checklists[process_type]
            missing == result.missing_documents
        IN  /\ \A m \in 1..Len(missing) :
                   \E k \in 1..Len(reqs) :
                       /\ reqs[k].document_name = missing[m]
                       /\ reqs[k].is_mandatory
            /\ \A k \in 1..Len(reqs) :
                   reqs[k].is_mandatory =>
                       ((\E m \in 1..Len(missing) : missing[m] = reqs[k].document_name)
                            <=> reqs[k].document_name \notin found_documents)
            /\ \A a, b \in 1..Len(missing) :
                   a < b => CatalogIndex(missing[a]) < CatalogIndex(missing[b])

\* the second of three mandatory requirements is satisfied: the first and the
\* third are missing, in that order, and the catalog has a non-mandatory entry
C11_Witness ==
    /\ pc = "returned"
    /\ process_type = "Employment Contracts"
    /\ found_documents = {<<"J","o","b"," ","D","e","s","c","r","i","p","t","i","o","n">>}  \* 'Job Description'
    /\ result.missing_documents = <<<<"E","m","p","l","o","y","m","e","n","t"," ","C","o","n","t","r","a","c","t">>, <<"B","o","a","r","d"," ","R","e","s","o","l","u","t","i","o","n">>>>  \* 'Employment Contract', 'Board Resolution'
    /\ \E k \in 1..Len(process_checklists[process_type]) :
           ~process_checklists[process_type][k].is_mandatory

-----------------------------------------------------------------------------
(* Claims about the document matcher and the process identifier. *)

\* sub, compared case-insensitively, is a substring of s
C12_SubstringNoCase(sub, s) ==
    \E p \in 0..(Len(s) - Len(sub)) :
        \A i \in 1..Len(sub) : lower_char(s[p + i]) = lower_char(sub[i])

\* C12: match_document_type returns true if and only if (1) some keyword of the
\* requirement is, case-insensitively, a substring of the text, or (2) the
\* normalized filename is the normalized document_name, or (3) some keyword is,
\* case-insensitively, a substring of the raw filename; it returns at the first
\* of the three steps, in this order, that is true.
C12_MatchIff ==
    pc = "matched" =>
        LET kw == args.required_doc.content_keywords
            step1 == \E k \in 1..Len(kw) : C12_SubstringNoCase(kw[k], args.text)
            step2 == normalize_filename(args.filename)
                         = normalize_filename(args.required_doc.document_name)
            step3 == \E k \in 1..Len(kw) : C12_SubstringNoCase(kw[k], args.filename)
        IN  /\ ret.value <=> (step1 \/ step2 \/ step3)
            /\ ret.step = 1 <=> step1
            /\ ret.step = 2 <=> (~step1 /\ step2)
            /\ ret.step = 3 <=> (~step1 /\ ~step2 /\ step3)
            /\ ret.step = 0 <=> ~ret.value

\* a text in upper case with a keyword of the requirement, under a filename
\* that matches nothing: the first step returns true
C12_Witness ==
    /\ pc = "matched"
    /\ args.filename = <<"s","c","a","n","0","0","1",".","p","d","f">>  \* 'scan001.pdf'
    /\ args.required_doc.document_name = <<"E","m","p","l","o","y","m","e","n","t"," ","C","o","n","t","r","a","c","t">>  \* 'Employment Contract'
    /\ Contains(args.text, <<"E","M","P","L","O","Y","M","E","N","T"," ","C","O","N","T","R","A","C","T">>)  \* 'EMPLOYMENT CONTRACT'
    /\ ret.value
    /\ ret.step = 1

\* C13: the filename normalisation is idempotent, also for names with several
\* recognized extensions, and "Board_Resolution.DOCX" and
\* "board-resolution.docx" both normalize to "board resolution".
C13_NormalizeIdempotent ==
    pc = "normalized" =>
        /\ ret.twice = ret.once
        /\ args \in {<<"B","o","a","r","d","_","R","e","s","o","l","u","t","i","o","n",".","D","O","C","X">>, <<"b","o","a","r","d","-","r","e","s","o","l","u","t","i","o","n",".","d","o","c","x">>} =>  \* 'Board_Resolution.DOCX', 'board-resolution.docx'
               ret.once = <<"b","o","a","r","d"," ","r","e","s","o","l","u","t","i","o","n">>  \* 'board resolution'

\* a name with two recognized extensions: only the last one is removed, and the
\* result is not changed by a second normalisation
C13_Witness ==
    /\ pc = "normalized"
    /\ args = <<"a",".","p","d","f",".","d","o","c","x">>  \* 'a.pdf.docx'
    /\ ret.once = <<"a"," ","p","d","f">>  \* 'a pdf'
    /\ ret.twice = <<"a"," ","p","d","f">>  \* 'a pdf'

\* the processes in declaration order, and the two anchor types of each
C14_Declared == <<"Company Incorporation", "Business Licensing",
                  "Employment Contracts", "Commercial Agreements">>

C14_Anchors ==
    ("Company Incorporation" :>
         {"Articles of Association", "Memorandum of Association"})
    @@ ("Business Licensing" :> {"License Application Form", "Business Plan"})
    @@ ("Employment Contracts" :> {"Employment Contract", "Job Description"})
    @@ ("Commercial Agreements" :> {"Commercial Agreement", "Due Diligence Report"})

\* the documents of the list whose document_type is in the set types
C14_OfType(types) ==
    {i \in 1..Len(args) :
        /\ "document_type" \in DOMAIN args[i]
        /\ args[i].document_type \in types}

C14_Score(p) ==
    3 * Cardinality(C14_OfType(C14_Anchors[p]))
        + Cardinality(C14_OfType({"Board Resolution"}))

\* C14: identify_process_type returns the process of greatest score, the first
\* declared one among those of greatest score; the score of a process is 3 for
\* each document of one of its 2 anchor types plus 1 for each Board Resolution.
C14_MaxScoreFirstDeclared ==
    pc = "identified" =>
        \E i \in 1..Len(C14_Declared) :
            /\ ret = C14_Declared[i]
            /\ \A j \in 1..Len(C14_Declared) :
                   C14_Score(C14_Declared[j]) <= C14_Score(ret)
            /\ \A j \in 1..(i - 1) :
                   C14_Score(C14_Declared[j]) < C14_Score(ret)

\* a Commercial Agreement, then an Employment Contract, then a Board Resolution:
\* both processes score 4 and Employment Contracts, declared first, is returned
C14_Witness ==
    /\ pc = "identified"
    /\ args = <<[document_type |-> "Commercial Agreement"],
                [document_type |-> "Employment Contract"],
                [document_type |-> "Board Resolution"]>>
    /\ C14_Score("Employment Contracts") = 4
    /\ C14_Score("Commercial Agreements") = 4
    /\ ret = "Employment Contracts"

\* C15: for every non-empty list of uploaded documents, also with documents
\* that have no document_type, identify_process_type returns one of the four
\* process names of the catalog, and verify_checklist returns that process_type
\* and never the "Unknown Process" result.
C15_AlwaysCatalogProcess ==
    /\ pc = "for_uploaded_doc" =>
           process_type \in {"Company Incorporation", "Business Licensing",
                             "Employment Contracts", "Commercial Agreements"}
    /\ (pc = "returned" /\ uploaded_documents # <<>>) =>
           /\ process_type \in {"Company Incorporation", "Business Licensing",
                                 "Employment Contracts", "Commercial Agreements"}
           /\ process_type \in DOMAIN process_checklists
           /\ result.process_type = process_type
           /\ result.process_type # "Unknown Process"

\* one uploaded document, without a document type: every score is 0 and the
\* first declared process is returned
C15_Witness ==
    /\ pc = "returned"
    /\ Len(uploaded_documents) = 1
    /\ "document_type" \notin DOMAIN uploaded_documents[1]
    /\ result.process_type = "Company Incorporation"
    /\ result.required_documents = 7

\* the text of the uploaded document at index i, the empty string when the
\* loader raises for its path
C16_Text(i) ==
    IF uploaded_documents[i].file_path \in DOMAIN Files
    THEN Files[uploaded_documents[i].file_path]
    ELSE <<>>

\* with that text the matcher accepts document i for requirement k
C16_Accepts(i, k) ==
    match_document_type(C16_Text(i), uploaded_documents[i].file_name,
                        process_checklists[process_type][k])

\* C16: when the text extraction raises for an uploaded document, verify_checklist
\* does not raise and takes the text of that document to be empty; the loop runs
\* for every uploaded document that has a file name and a path, before and
\* after the failing one, and each one the matcher accepts for some mandatory
\* requirement has such a requirement satisfied at the return.
C16_ExtractionFailureIsolated ==
    /\ pc # "raised"
    /\ (pc = "returned" /\ uploaded_documents # <<>>) =>
           LET extracted == SelectSeq(calls, LAMBDA c : c.fn = "extract_text")
               looped == SelectSeq(uploaded_documents,
                             LAMBDA d : /\ Get(d, "file_name", <<>>) # <<>>
                                        /\ Get(d, "file_path", "") # "")
           IN  /\ Len(extracted) = Len(looped)
               /\ \A n \in 1..Len(looped) : extracted[n].arg = looped[n].file_path
               /\ \A i \in 1..Len(uploaded_documents) :
                      (Processed(i) /\ \E k \in MandatoryIndices : C16_Accepts(i, k))
                          => \E k \in MandatoryIndices :
                                 /\ C16_Accepts(i, k)
                                 /\ process_checklists[process_type][k].document_name
                                        \in found_documents

\* the loader raises for the second of three documents: it is matched by its
\* file name, the first and the third by their text, and the result is complete
C16_Witness ==
    /\ pc = "returned"
    /\ Len(uploaded_documents) = 3
    /\ Get(uploaded_documents[1], "file_path", "") \in DOMAIN Files
    /\ Get(uploaded_documents[2], "file_path", "") \notin DOMAIN Files
    /\ Get(uploaded_documents[3], "file_path", "") \in DOMAIN Files
    /\ found_documents = {<<"E","m","p","l","o","y","m","e","n","t"," ","C","o","n","t","r","a","c","t">>, <<"B","o","a","r","d"," ","R","e","s","o","l","u","t","i","o","n">>,  \* 'Employment Contract', 'Board Resolution'
                          <<"J","o","b"," ","D","e","s","c","r","i","p","t","i","o","n">>}  \* 'Job Description'
    /\ result.is_complete

-----------------------------------------------------------------------------
(* Claims about the checks of check_compliance. *)

\* the number of issues of the report that have one of the given types
IssuesOfType(types) ==
    Cardinality({i \in 1..Len(report.issues) : report.issues[i].issue_type \in types})

\* an Articles of Association document whose whole text is "UAE Federal Courts"
C19_Scenario ==
    /\ pc = "returned"
    /\ document_type = "Articles of Association"
    /\ content = <<"U","A","E"," ","F","e","d","e","r","a","l"," ","C","o","u","r","t","s">>  \* 'UAE Federal Courts'

\* the issues of the scenario that do not depend on the structure: one forbidden
\* reference, the missing ADGM reference, the 7 required clauses, all High
C19_NineHigh ==
    /\ IssuesOfType({"Jurisdiction Error"}) = 1
    /\ IssuesOfType({"Missing ADGM Reference"}) = 1
    /\ IssuesOfType({"Missing Required Clause"}) = 7
    /\ IssuesOfType({"Ambiguous Language"}) = 0
    /\ report.high_severity_issues = 9
    /\ ~report.is_compliant

\* C19 as stated: in the scenario there are 2 jurisdiction issues and 7 missing
\* clause issues, so total_issues = 9, high = 9, score = 0, is_compliant = false.
C19_Original ==
    C19_Scenario =>
        /\ C19_NineHigh
        /\ report.total_issues = 9
        /\ report.compliance_score = 0

\* C19, amended: in the scenario there are 2 jurisdiction issues and 7 missing
\* clause issues, all High, and is_compliant = false; the formatting check adds a
\* Medium issue for a structure without a title and a Low issue for a structure
\* with fewer than 2 sections, so total_issues = 9 and score = 0 for a structure
\* with a title and 2 sections, and otherwise total_issues is 10 or 11 and the
\* score is 3.33 (no title), 6.67 (fewer than 2 sections) or 9.09 (both).
C19_Amended ==
    C19_Scenario =>
        LET no_title == Get(structure, "title", <<>>) = <<>>
            few_sections == Len(Get(structure, "sections", <<>>)) < 2
        IN  /\ C19_NineHigh
            /\ report.medium_severity_issues = (IF no_title THEN 1 ELSE 0)
            /\ report.low_severity_issues = (IF few_sections THEN 1 ELSE 0)
            /\ report.total_issues
                   = 9 + report.medium_severity_issues + report.low_severity_issues
            /\ (~no_title /\ ~few_sections) => report.compliance_score = 0
            /\ (no_title /\ ~few_sections) => report.compliance_score = 333
            /\ (~no_title /\ few_sections) => report.compliance_score = 667
            /\ (no_title /\ few_sections) => report.compliance_score = 909

\* the scenario with a structure that has a title and no section: 10 issues
C19_Witness ==
    /\ C19_Scenario
    /\ structure = [title |-> <<"B","o","a","r","d"," ","R","e","s","o","l","u","t","i","o","n">>]  \* 'Board Resolution'
    /\ report.total_issues = 10
    /\ report.high_severity_issues = 9
    /\ report.compliance_score = 667

\* the matches of the patterns in the content: a pattern and a start position
C20_Matches(patterns) ==
    UNION {{<<p, start>> : start \in MatchStarts(patterns[p], content)} :
              p \in 1..Len(patterns)}

\* C20: the jurisdiction check emits one High 'Jurisdiction Error' issue for each
\* match of a forbidden pattern, and one High 'Missing ADGM Reference' issue if
\* and only if no required pattern matches anywhere in the text: n forbidden
\* matches give n + 1 jurisdiction issues without an ADGM reference, n with one.
C20_JurisdictionIssues ==
    pc = "returned" =>
        LET n == Cardinality(C20_Matches(federal_court_patterns))
            adgm == C20_Matches(adgm_jurisdiction_patterns) # {}
        IN  /\ IssuesOfType({"Jurisdiction Error"}) = n
            /\ IssuesOfType({"Missing ADGM Reference"}) = (IF adgm THEN 0 ELSE 1)
            /\ IssuesOfType({"Jurisdiction Error", "Missing ADGM Reference"})
                   = (IF adgm THEN n ELSE n + 1)
            /\ \A i \in 1..Len(report.issues) :
                   report.issues[i].issue_type
                       \in {"Jurisdiction Error", "Missing ADGM Reference"}
                   => report.issues[i].severity = "High"

\* two forbidden references and no ADGM reference: three jurisdiction issues
C20_Witness ==
    /\ pc = "returned"
    /\ Cardinality(C20_Matches(federal_court_patterns)) = 2
    /\ C20_Matches(adgm_jurisdiction_patterns) = {}
    /\ IssuesOfType({"Jurisdiction Error", "Missing ADGM Reference"}) = 3

-----------------------------------------------------------------------------
(* Claims about process_documents. *)

\* the Knowledge Store has raised for a file of this call
C17_EnhanceRaised ==
    \E e \in 1..Len(errors) : EndsWith(errors[e], enhance_error)

\* the score and the issues computed for the loaded file d are in the report
C17_Reported(d) ==
    LET doc == processed_documents[d]
        checked == compliance_result(doc.document_type, doc.text_content,
                                     doc.structure)
        reported == ret.structured_output
    IN  /\ reported.documents[d].compliance_score = checked.compliance_score
        /\ reported.documents[d].total_issues = checked.total_issues
        /\ Cardinality({i \in 1..Len(reported.issues_found) :
                            reported.issues_found[i].document = doc.file_name})
               >= checked.total_issues

\* C17 as stated: if enhance_compliance_analysis raises while a file is being
\* processed, process_documents does not raise: it returns its tuple, with the
\* scores and the issues computed for every loaded file.
C17_Original ==
    C17_EnhanceRaised =>
        /\ pc # "raised"
        /\ pc = "returned" =>
               \A d \in 1..Len(processed_documents) : C17_Reported(d)

\* file i of the batch is one process_document loads
C18_Loaded(i) ==
    /\ EndsWith(lower(files[i].file_name), <<".","d","o","c","x">>)  \* '.docx'
    /\ files[i].file_path \in DOMAIN Files

\* C18: when loading a file raises, the error is recorded under the name of the
\* file, the file is left out of processed_documents, every other file is
\* loaded, checked and given to verify_checklist, and the call returns a message
\* that lists the errors; a call in which the Knowledge Store does not raise
\* never raises.
C18_UnreadableFileIsolated ==
    /\ pc = "raised" => C17_EnhanceRaised
    /\ (pc = "returned" /\ files # <<>>) =>
           LET loaded == SelectSeq(files, LAMBDA f :
                             /\ EndsWith(lower(f.file_name), <<".","d","o","c","x">>)  \* '.docx'
                             /\ f.file_path \in DOMAIN Files)
               failed == SelectSeq(files, LAMBDA f :
                             \/ ~EndsWith(lower(f.file_name), <<".","d","o","c","x">>)  \* '.docx'
                             \/ f.file_path \notin DOMAIN Files)
           IN  /\ Len(processed_documents) = Len(loaded)
               /\ \A d \in 1..Len(loaded) :
                      /\ processed_documents[d].file_path = loaded[d].file_path
                      /\ C17_Reported(d)
               /\ ret.structured_output.documents_uploaded = Len(loaded)
               /\ Len(errors) = Len(failed)
               /\ \A e \in 1..Len(failed) :
                      /\ SubSeq(errors[e], 1, Len(failed[e].file_name) + 2)
                             = failed[e].file_name \o <<":"," ">>  \* ': '
                      /\ Contains(ret.user_message, errors[e])
               /\ failed # <<>> => Contains(ret.user_message, <<"\n","\n","E","r","r","o","r","s",":","\n">>)  \* '\\n\\nErrors:\\n'

\* an unreadable document, then a readable one: one error, one processed
\* document, and the call returns
C18_Witness ==
    /\ pc = "returned"
    /\ Len(files) = 2
    /\ files[1].file_path \notin DOMAIN Files
    /\ C18_Loaded(2)
    /\ Len(errors) = 1
    /\ Len(processed_documents) = 1
    /\ processed_documents[1].file_path = files[2].file_path
    /\ Contains(ret.user_message, <<"E","r","r","o","r","s",":","\n","c","o","r","r","u","p","t",".","d","o","c","x",":"," ">>)  \* 'Errors:\\ncorrupt.docx: '

-----------------------------------------------------------------------------
(* Claims about the required-clause check and the formatting check. *)

\* the issues of the report that have the given type, in report order
C21_IssuesOf(type) ==
    SelectSeq(report.issues, LAMBDA i : i.issue_type = type)

\* C21: the required-clause check emits exactly one High 'Missing Required
\* Clause' issue for each clause phrase of the document type's list that is not
\* a case-insensitive substring of the text, in list order, and no issue,
\* without raising, for a document type that has no required-clause list.
C21_OneIssuePerMissingClause ==
    pc = "returned" =>
        LET emitted == C21_IssuesOf("Missing Required Clause")
            absent == IF document_type \in DOMAIN required_clauses
                      THEN SelectSeq(required_clauses[document_type],
                               LAMBDA c : ~C12_SubstringNoCase(c, content))
                      ELSE <<>>
        IN  /\ Len(emitted) = Len(absent)
            /\ \A i \in 1..Len(emitted) :
                   /\ emitted[i].clause = absent[i]
                   /\ emitted[i].severity = "High"

\* a text that has "Company Name" in capitals and no other clause of the
\* Articles of Association: 6 issues, the first for "registered office"
C21_Witness ==
    /\ pc = "returned"
    /\ document_type = "Articles of Association"
    /\ content = <<"C","o","m","p","a","n","y"," ","N","a","m","e">>  \* 'Company Name'
    /\ Len(C21_IssuesOf("Missing Required Clause")) = 6
    /\ C21_IssuesOf("Missing Required Clause")[1].clause = <<"r","e","g","i","s","t","e","r","e","d"," ","o","f","f","i","c","e">>  \* 'registered office'

\* the structure has a title that is not empty
C22_HasTitle ==
    "title" \in DOMAIN structure /\ structure.title # <<>>

\* the number of sections the structure has
C22_Sections ==
    IF "sections" \in DOMAIN structure THEN Len(structure.sections) ELSE 0

\* the issues of the formatting check, in report order
C22_FormattingIssues ==
    SelectSeq(report.issues,
              LAMBDA i : i.issue_type \in {"Missing Title", "Poor Structure"})

\* C22: the formatting check emits one Medium 'Missing Title' issue iff the
\* structure has no non-empty title and one Low 'Poor Structure' issue iff it has
\* fewer than 2 sections; a structure that lacks the 'title' or 'sections' key
\* does not raise and is treated as empty, so the empty mapping yields exactly
\* these two issues.
C22_FormattingIssuesIff ==
    pc = "returned" =>
        LET title_issue == [issue_type |-> "Missing Title", severity |-> "Medium",
                            clause |-> <<"N","o"," ","t","i","t","l","e"," ","f","o","u","n","d">>]  \* 'No title found'
            structure_issue == [issue_type |-> "Poor Structure", severity |-> "Low",
                                clause |-> <<"I","n","s","u","f","f","i","c","i","e","n","t"," ","s","e","c","t","i","o","n","s">>]  \* 'Insufficient sections'
        IN  /\ C22_FormattingIssues
                   = (IF C22_HasTitle THEN <<>> ELSE <<title_issue>>)
                     \o (IF C22_Sections < 2 THEN <<structure_issue>> ELSE <<>>)
            /\ DOMAIN structure = {} =>
                   C22_FormattingIssues = <<title_issue, structure_issue>>

\* the empty mapping: 'Missing Title', then 'Poor Structure', and a report
C22_Witness ==
    /\ pc = "returned"
    /\ DOMAIN structure = {}
    /\ Len(C22_FormattingIssues) = 2
    /\ C22_FormattingIssues[1].issue_type = "Missing Title"
    /\ C22_FormattingIssues[2].issue_type = "Poor Structure"
    /\ report.total_issues >= 2

-----------------------------------------------------------------------------
(* Claims about the loader calls of verify_checklist. *)

\* the uploaded documents among the first n that have a file name and a path
C23_Loadable(n) ==
    {i \in 1..n : /\ "file_name" \in DOMAIN uploaded_documents[i]
                  /\ uploaded_documents[i].file_name # <<>>
                  /\ "file_path" \in DOMAIN uploaded_documents[i]
                  /\ uploaded_documents[i].file_path # ""}

\* the number of loader calls made so far for the path
C23_Extractions(path) ==
    Cardinality({c \in 1..Len(calls) :
                    calls[c].fn = "extract_text" /\ calls[c].arg = path})

\* C23: within one verify_checklist call the loader is called exactly once for
\* each uploaded document that has a non-empty file_name and file_path, never
\* for a document missing either field, which is skipped for matching but still
\* counted in documents_uploaded, and never on the empty-input path.
C23_OneExtractionPerDocument ==
    LET n == IF pc = "verify_checklist" THEN 0
             ELSE IF pc = "returned" THEN Len(uploaded_documents)
             ELSE doc_index - 1
    IN  /\ \A path \in {c.arg : c \in Range(calls)} \cup DOMAIN Files :
               C23_Extractions(path)
                   = Cardinality({i \in C23_Loadable(n) :
                                     uploaded_documents[i].file_path = path})
        /\ pc = "returned" =>
               /\ result.documents_uploaded = Len(uploaded_documents)
               /\ uploaded_documents = <<>> => calls = <<>>

\* three uploads, the second without a file path and the third without a file
\* name: one loader call, and three documents counted
C23_Witness ==
    /\ pc = "returned"
    /\ Len(uploaded_documents) = 3
    /\ C23_Loadable(3) = {1}
    /\ "file_path" \notin DOMAIN uploaded_documents[2]
    /\ "file_name" \notin DOMAIN uploaded_documents[3]
    /\ C23_Extractions(uploaded_documents[1].file_path) = 1
    /\ result.documents_uploaded = 3

-----------------------------------------------------------------------------
(* Claims about the tables of the shared instances. *)

\* the last call is the first call made again
C24_SameCall ==
    /\ first_call # <<>>
    /\ args.fn = first_call[1].call.fn
    /\ args.arg = first_call[1].call.arg

\* C24: the rule catalog and the process checklist catalog are read-only after
\* initialization: no sequence of check_compliance, verify_checklist,
\* identify_process_type, match_document_type or generate_user_message calls,
\* interleaved on shared instances, changes a catalog table, so a call with the
\* arguments of the first call returns what the first call returned, and the
\* verify_checklist call that runs between the others returns what it returns
\* alone.
C24_CatalogsReadOnly ==
    /\ catalog = Catalog
    /\ C24_SameCall => ret = first_call[1].ret
    /\ pc = "returned" => result = verify_checklist(uploaded_documents)

\* check_compliance was the first call and was made again, other calls were
\* made and the verify_checklist call has returned after two documents
C24_Witness ==
    /\ pc = "returned"
    /\ Len(uploaded_documents) = 2
    /\ Len(calls) = 3
    /\ first_call # <<>>
    /\ first_call[1].call.fn = "check_compliance"
    /\ first_call[1].call.arg.document_type = "Board Resolution"
    /\ first_call[1].repeated
    /\ args.fn = "generate_user_message"
    /\ catalog = Catalog

-----------------------------------------------------------------------------
(* Claims about generate_user_message. *)

\* the names, each in single quotes, joined by a comma and a space
RECURSIVE C25_Enumeration(_)
C25_Enumeration(names) ==
    IF names = <<>> THEN <<>>
    ELSE IF Len(names) = 1 THEN <<"'">> \o names[1] \o <<"'">>  \* ''', '''
    ELSE <<"'">> \o names[1] \o <<"'",","," ">> \o C25_Enumeration(Tail(names))  \* ''', '', '

\* the description of the four processes, and of any other process type
C25_Description ==
    CASE args.process_type = "Company Incorporation" ->
             <<"Y","o","u"," ","a","r","e"," ","a","t","t","e","m","p","t","i","n","g"," ","t","o"," ","i","n","c","o","r","p","o","r","a","t","e"," ","a"," ","c","o","m","p","a","n","y"," ","i","n"," ","A","D","G","M">>  \* 'You are attempting to incorporate a company in ADGM'
      [] args.process_type = "Business Licensing" ->
             <<"Y","o","u"," ","a","r","e"," ","a","p","p","l","y","i","n","g"," ","f","o","r"," ","a"," ","b","u","s","i","n","e","s","s"," ","l","i","c","e","n","s","e"," ","i","n"," ","A","D","G","M">>  \* 'You are applying for a business license in ADGM'
      [] args.process_type = "Employment Contracts" ->
             <<"Y","o","u"," ","a","r","e"," ","s","e","t","t","i","n","g"," ","u","p"," ","e","m","p","l","o","y","m","e","n","t"," ","c","o","n","t","r","a","c","t","s"," ","f","o","r"," ","A","D","G","M"," ","o","p","e","r","a","t","i","o","n","s">>  \* 'You are setting up employment contracts for ADGM operations'
      [] args.process_type = "Commercial Agreements" ->
             <<"Y","o","u"," ","a","r","e"," ","e","s","t","a","b","l","i","s","h","i","n","g"," ","c","o","m","m","e","r","c","i","a","l"," ","a","g","r","e","e","m","e","n","t","s"," ","f","o","r"," ","A","D","G","M"," ","b","u","s","i","n","e","s","s">>  \* 'You are establishing commercial agreements for ADGM business'
      [] OTHER -> <<"U","n","k","n","o","w","n"," ","l","e","g","a","l"," ","p","r","o","c","e","s","s">>  \* 'Unknown legal process'

\* C25: for a complete result the message of generate_user_message states the
\* process description and that all N = required_documents required documents
\* were uploaded; otherwise it states documents_uploaded out of
\* required_documents and ends with every name of missing_documents, each in
\* single quotes, comma-joined, in the order of missing_documents.
C25_MessageStates ==
    pc = "generated" =>
        /\ Contains(ret, C25_Description \o <<"."," ">>)  \* '. '
        /\ args.is_complete =>
               /\ Contains(ret, <<"u","p","l","o","a","d","e","d"," ","a","l","l"," ">> \o Decimal(args.required_documents)  \* 'uploaded all '
                                \o <<" ","r","e","q","u","i","r","e","d"," ","d","o","c","u","m","e","n","t","s",".">>)  \* ' required documents.'
               /\ ~Contains(ret, <<"m","i","s","s","i","n","g">>)  \* 'missing'
        /\ ~args.is_complete =>
               /\ Contains(ret, <<"u","p","l","o","a","d","e","d"," ">> \o Decimal(args.documents_uploaded)  \* 'uploaded '
                                \o <<" ","o","u","t"," ","o","f"," ">> \o Decimal(args.required_documents)  \* ' out of '
                                \o <<" ","r","e","q","u","i","r","e","d"," ","d","o","c","u","m","e","n","t","s",".">>)  \* ' required documents.'
               /\ EndsWith(ret, <<":"," ">> \o C25_Enumeration(args.missing_documents)  \* ': '
                                \o <<".">>)  \* '.'

\* two of three mandatory documents are missing: both are listed, in order
C25_Witness ==
    /\ pc = "generated"
    /\ args.process_type = "Employment Contracts"
    /\ args.documents_uploaded = 2
    /\ args.missing_documents = <<<<"J","o","b"," ","D","e","s","c","r","i","p","t","i","o","n">>, <<"B","o","a","r","d"," ","R","e","s","o","l","u","t","i","o","n">>>>  \* 'Job Description', 'Board Resolution'
    /\ EndsWith(ret, <<"a","p","p","e","a","r"," ","t","o"," ","b","e",":"," ","'","J","o","b"," ","D","e","s","c","r","i","p","t","i","o","n","'",","," ","'","B","o","a","r","d"," ","R","e","s","o","l","u","t","i","o","n","'",".">>)  \* 'appear to be: 'Job Description', 'Board Resolution'.'

-----------------------------------------------------------------------------
(* Claims about the document processor. *)

\* the name ends with ".docx" in any case, after a character that is not a dot
C26_DocxExtension(name) ==
    LET n == Len(name)
    IN  /\ n > 5
        /\ \A i \in 1..5 : lower_char(name[n - 5 + i]) = <<".","d","o","c","x">>[i]  \* '.docx'
        /\ \E i \in 1..(n - 5) : name[i] # "."

\* C26: the file-type detection accepts a path if and only if its extension is
\* '.docx' compared case-insensitively ("document.docx" and "contract.DOCX"
\* accepted; "document.pdf", "document.txt" and "document" rejected), and
\* process_document rejects every non-accepted path with an error before any
\* extraction is attempted.
C26_DocxOnly ==
    /\ can_process(<<"d","o","c","u","m","e","n","t",".","d","o","c","x">>)  \* 'document.docx'
    /\ can_process(<<"c","o","n","t","r","a","c","t",".","D","O","C","X">>)  \* 'contract.DOCX'
    /\ ~can_process(<<"d","o","c","u","m","e","n","t",".","p","d","f">>)  \* 'document.pdf'
    /\ ~can_process(<<"d","o","c","u","m","e","n","t",".","t","x","t">>)  \* 'document.txt'
    /\ ~can_process(<<"d","o","c","u","m","e","n","t">>)  \* 'document'
    /\ pc \in {"raised", "returned"} =>
           IF C26_DocxExtension(args.file_name)
           THEN /\ calls # <<>>
                /\ calls[1] = [fn |-> "extract_text", arg |-> args.file_path]
                /\ pc = "raised" => ret.exception # "ValueError"
           ELSE /\ pc = "raised"
                /\ ret.exception = "ValueError"
                /\ calls = <<>>

\* a file that is no .docx file and that the loader could not read either: the
\* error is that of the file type, and nothing was extracted
C26_Witness ==
    /\ pc = "raised"
    /\ args.file_name = <<"r","e","p","o","r","t",".","d","o","c","x",".","p","d","f">>  \* 'report.docx.pdf'
    /\ args.file_path = "/up/corrupt.docx"
    /\ ret.exception = "ValueError"
    /\ calls = <<>>

-----------------------------------------------------------------------------
(* Claims about the scores of documents that have issues. *)

\* C27: a document with at least one issue is never compliant: when
\* total_issues >= 1 the score is at most 66.67, so is_compliant is true if and
\* only if total_issues = 0, and the only scores are 100 and the values of
\* [0, 66.67].
C27_IssueNeverCompliant ==
    pc = "scored" =>
        LET total == sev_counts.high + sev_counts.medium + sev_counts.low
        IN  /\ total >= 1 => scores.score <= 6667
            /\ scores.compliant <=> total = 0
            /\ \/ scores.score = 10000
               \/ 0 <= scores.score /\ scores.score <= 6667

\* the best case with an issue: Low issues only, 66.67, not compliant
C27_Witness ==
    /\ pc = "scored"
    /\ sev_counts = [high |-> 0, medium |-> 0, low |-> MaxCount]
    /\ scores.score = 6667
    /\ ~scores.compliant

-----------------------------------------------------------------------------
(* Claims about the filename fallback of verify_checklist. *)

\* the document matcher rejects the uploaded document at index i for every
\* mandatory requirement of the inferred process: the guard of the fallback
C28_Guard(i) ==
    \A k \in MandatoryIndices : ~Accepts(i, k)

\* C28: the filename-fallback branch of verify_checklist never marks a
\* requirement: whenever its guard holds, _find_matching_document over the
\* mandatory names returns no match, so the satisfied set is changed only by the
\* first matching loop and the number of satisfied requirements never exceeds
\* the number of uploaded documents that have a file_name and a file_path.
C28_FallbackNeverMarks ==
    [][(pc = "for_uploaded_doc" /\ doc_index <= Len(uploaded_documents)
           /\ Processed(doc_index)) =>
          LET reqs == process_checklists[process_type]
              names == [k \in 1..Len(reqs) |-> reqs[k].document_name]
              mandatory == SelectSeq(names, LAMBDA n :
                               \E k \in MandatoryIndices : reqs[k].document_name = n)
              doc == uploaded_documents[doc_index]
          IN  /\ C28_Guard(doc_index) =>
                     /\ find_matching_document(doc.file_name, mandatory) = <<>>
                     /\ found_documents' = found_documents
              /\ found_documents' =
                     FirstMatch(found_documents, extract_docx_text(doc.file_path),
                                doc.file_name, reqs)
              /\ Cardinality(found_documents')
                     <= Cardinality({i \in 1..doc_index : Processed(i)})]_vars

\* a document with a file name and a path that the matcher rejects for every
\* mandatory requirement was handled after one that satisfied a requirement
C28_Witness ==
    /\ pc = "for_uploaded_doc"
    /\ doc_index = 3
    /\ Processed(1)
    /\ Processed(2)
    /\ ~C28_Guard(1)
    /\ C28_Guard(2)
    /\ Cardinality(found_documents) = 1

-----------------------------------------------------------------------------
(* Claims about the documents that decide the process. *)

\* the anchor document types, in a fixed order
C29_AnchorTypes ==
    <<"Articles of Association", "Memorandum of Association",
      "License Application Form", "Business Plan",
      "Employment Contract", "Job Description",
      "Commercial Agreement", "Due Diligence Report">>

\* the anchor types of the listed documents as a list that depends only on how
\* many documents there are of each anchor type: no other document, and the
\* anchor types in the fixed order
C29_AnchorsOnly ==
    Flatten([t \in 1..Len(C29_AnchorTypes) |->
        [n \in 1..Cardinality(C14_OfType({C29_AnchorTypes[t]})) |->
            [document_type |-> C29_AnchorTypes[t]]]])

\* C29: the process returned by identify_process_type depends only on the
\* multiset of anchor document types: it is unchanged by any permutation of the
\* uploaded documents and by adding or removing any number of 'Board
\* Resolution' documents or documents of unrecognized type.
C29_OnlyAnchorsCount ==
    pc = "identified" => ret = identify_process_type(C29_AnchorsOnly)

\* a Board Resolution and a document of unrecognized type before a Job
\* Description: the process is that of the Job Description alone
C29_Witness ==
    /\ pc = "identified"
    /\ args = <<[document_type |-> "Board Resolution"],
                [document_type |-> "Unknown Document Type"],
                [document_type |-> "Job Description"]>>
    /\ C29_AnchorsOnly = <<[document_type |-> "Job Description"]>>
    /\ ret = "Employment Contracts"

-----------------------------------------------------------------------------
(* Claims about the process inferred by process_documents. *)

\* the number of processed documents whose label is in the set
C30_Labelled(labels) ==
    Cardinality({d \in 1..Len(processed_documents) :
                    processed_documents[d].document_type \in labels})

\* C30: in process_documents, which gives verify_checklist the document_type
\* labels of identify_document_type, the process 'Business Licensing' is never
\* inferred for any batch of files: no label of the classifier is a Business
\* Licensing anchor type, so its score never exceeds that of 'Company
\* Incorporation', which is declared first.
C30_NeverBusinessLicensing ==
    /\ C30_Labelled({"License Application Form", "Business Plan"}) = 0
    /\ C30_Labelled({"Board Resolution"})
           <= 3 * C30_Labelled({"Articles of Association",
                                "Memorandum of Association"})
              + C30_Labelled({"Board Resolution"})
    /\ identify_process_type(processed_documents) # "Business Licensing"
    /\ (pc = "returned" /\ files # <<>>) =>
           /\ ret.structured_output.process # "Business Licensing"
           /\ processed_documents # <<>> =>
                  ret.structured_output.process
                      \in {"Company Incorporation", "Employment Contracts",
                           "Commercial Agreements"}

\* a licence application and a board resolution: the application is labelled a
\* regulatory filing, and the process inferred is Company Incorporation
C30_Witness ==
    /\ pc = "returned"
    /\ Len(processed_documents) = 2
    /\ processed_documents[1].file_path = "/up/license.docx"
    /\ processed_documents[1].document_type = "Regulatory Filing"
    /\ processed_documents[2].document_type = "Board Resolution"
    /\ ret.structured_output.process = "Company Incorporation"

=============================================================================
